---- MODULE Spec2Model ----
(***************************************************************************)
(* Model of gh-repo-transfer: the dependency classifier                    *)
(* (validation.ValidateAgainstTarget) and the concurrent batch analyser    *)
(* (batch.BatchAnalyzer).  Go strings are sequences of one-character       *)
(* strings, so that strings.Index, Split, TrimPrefix, ToLower and          *)
(* EqualFold are computed the way the Go library computes them.            *)
(***************************************************************************)
EXTENDS Integers, Sequences, FiniteSets, TLC

\* ------------------------------------------------------------------ bounds
\* Longest batch handed to AnalyzeRepositories.
MaxRepos == 2
\* Most outbound per-repository calls that fail in one batch run.
MaxFaults == 1
\* Most dependency items in the facts handed to ValidateAgainstTarget.
MaxItems == 2
\* Most ValidationResults in a MigrationValidation handed to calculateSummary.
MaxCount == 3

\* most calls of ValidateAgainstTarget one caller makes in a row
MaxCalls == 2
\* longest include list and longest exclude list of a ruleset's conditions
MaxNames == 2

\* ------------------------------------------------------------ Go strings
Nil == "nil"

UpperChars == <<"A","B","C","D","E","F","G","H","I","J","K","L","M",
                "N","O","P","Q","R","S","T","U","V","W","X","Y","Z">>

LowerChars == <<"a","b","c","d","e","f","g","h","i","j","k","l","m",
                "n","o","p","q","r","s","t","u","v","w","x","y","z">>

\* unicode.ToLower on one character of the alphabet in use
ToLowerChar(c) ==
    IF \E k \in 1..Len(UpperChars) : UpperChars[k] = c
    THEN LowerChars[CHOOSE k \in 1..Len(UpperChars) : UpperChars[k] = c]
    ELSE c

\* strings.ToLower
ToLower(s) == [k \in 1..Len(s) |-> ToLowerChar(s[k])]

\* strings.EqualFold: equality under simple case folding
EqualFold(s, t) ==
    /\ Len(s) = Len(t)
    /\ \A k \in 1..Len(s) : ToLowerChar(s[k]) = ToLowerChar(t[k])

\* sub occurs in s at the 0-based offset off
OccursAt(s, sub, off) ==
    /\ off >= 0
    /\ off + Len(sub) <= Len(s)
    /\ \A k \in 1..Len(sub) : s[off + k] = sub[k]

\* strings.Index: 0-based offset of the first occurrence, -1 when there is none
Index(s, sub) ==
    IF \E off \in 0..Len(s) : OccursAt(s, sub, off)
    THEN CHOOSE off \in 0..Len(s) :
            /\ OccursAt(s, sub, off)
            /\ \A o \in 0..(off - 1) : ~OccursAt(s, sub, o)
    ELSE -1

\* strings.Contains
Contains(s, sub) == Index(s, sub) >= 0

\* strings.HasPrefix
HasPrefix(s, prefix) == OccursAt(s, prefix, 0)

\* strings.TrimPrefix: s without the leading prefix, s itself when it has none
TrimPrefix(s, prefix) ==
    IF HasPrefix(s, prefix) THEN SubSeq(s, Len(prefix) + 1, Len(s)) ELSE s

\* strings.Split for a non-empty separator
RECURSIVE Split(_, _)
Split(s, sep) ==
    LET off == Index(s, sep) IN
    IF off < 0 THEN <<s>>
    ELSE <<SubSeq(s, 1, off)>> \o Split(SubSeq(s, off + Len(sep) + 1, Len(s)), sep)

\* strings.Join
RECURSIVE Join(_, _)
Join(elems, sep) ==
    IF Len(elems) = 0 THEN <<>>
    ELSE IF Len(elems) = 1 THEN elems[1]
    ELSE elems[1] \o sep \o Join(Tail(elems), sep)

\* the elements of a sequence
Range(seq) == {seq[k] : k \in 1..Len(seq)}

\* the sequences over S of length at most n
SeqsUpTo(S, n) == UNION {[1..k -> S] : k \in 0..n}

\* ------------------------------------------------- types (ValidationStatus)
ValidationReady == "ready"

ValidationSetupNeeded == "setup_needed"

ValidationBlocker == "blocker"

ValidationWarning == "warning"

ValidationReview == "review"

ValidationUnknown == "unknown"

ValidationStatuses ==
    {ValidationReady, ValidationSetupNeeded, ValidationBlocker,
     ValidationWarning, ValidationReview, ValidationUnknown}

\* types.ValidationResult; Item and Recommendation are Go strings, Message is
\* one of the fixed texts of the classifier and is kept as an atom
ValidationResult(item, status, message, recommendation) ==
    [Item |-> item, Status |-> status, Message |-> message,
     Recommendation |-> recommendation]

\* types.OrgPolicy
OrgPolicy(name, status, restrictions) ==
    [Name |-> name, Status |-> status, Restrictions |-> restrictions]

\* seqs[1] \o seqs[2] \o ...
RECURSIVE Flatten(_)
Flatten(seqs) == IF seqs = <<>> THEN <<>> ELSE Head(seqs) \o Flatten(Tail(seqs))

\* ------------------------------------------ classifier: names and lookups
extractAppName(appString) ==
    LET idx == Index(appString, <<" ","(">>) IN
    IF idx # -1 THEN SubSeq(appString, 1, idx) ELSE appString

\* a slip a maintainer could make: cutting at the last " (" instead of the first
extractTeamNameAtLastParen(teamString) ==
    LET offs == {off \in 0..Len(teamString) : OccursAt(teamString, <<" ","(">>, off)} IN
    IF offs # {}
    THEN SubSeq(teamString, 1, CHOOSE off \in offs : \A o \in offs : o <= off)
    ELSE teamString

extractTeamName(teamString) ==
    LET idx == Index(teamString, <<" ","(">>) IN
    IF idx # -1 THEN SubSeq(teamString, 1, idx) ELSE teamString

extractSecretName(secretString) == secretString

extractVariableName(variableString) == variableString

extractRunnerName(runnerString) == runnerString

isAppAvailable(appName, availableApps) ==
    \E k \in 1..Len(availableApps) : EqualFold(appName, availableApps[k])

commonApps == <<<<"d","e","p","e","n","d","a","b","o","t">>, <<"g","i","t","h","u","b","-","a","c","t","i","o","n","s">>, <<"c","o","d","e","c","o","v">>, <<"s","o","n","a","r","c","l","o","u","d">>>>

\* a slip a maintainer could make: comparing without lowering the app name
isCommonAppCaseSensitive(appName) ==
    \E k \in 1..Len(commonApps) : Contains(appName, commonApps[k])

isCommonApp(appName) ==
    \E k \in 1..Len(commonApps) : Contains(ToLower(appName), commonApps[k])

isTeamAvailable(teamName, availableTeams) ==
    \E k \in 1..Len(availableTeams) : EqualFold(teamName, availableTeams[k])

isSecretAvailable(secretName, availableSecrets) ==
    \E k \in 1..Len(availableSecrets) : EqualFold(secretName, availableSecrets[k])

isVariableAvailable(variableName, availableVariables) ==
    \E k \in 1..Len(availableVariables) : EqualFold(variableName, availableVariables[k])

isRunnerAvailable(runnerName, availableRunners) ==
    \E k \in 1..Len(availableRunners) : EqualFold(runnerName, availableRunners[k])

\* ------------------------------------------------ classifier: categories
\* body of the loop of validateAppsIntegrations
validateApp(app, capabilities) ==
    LET appName == extractAppName(app) IN
    IF isAppAvailable(appName, capabilities.Apps)
    THEN ValidationResult(app, ValidationReady,
                          "App is available in target organization", <<>>)
    ELSE IF isCommonApp(appName)
    THEN ValidationResult(app, ValidationSetupNeeded,
                          "Standard app, can be installed",
                          <<"I","n","s","t","a","l","l"," ">> \o appName \o <<" ","i","n"," ","t","a","r","g","e","t"," ","o","r","g","a","n","i","z","a","t","i","o","n">>)
    ELSE ValidationResult(app, ValidationBlocker,
                          "Custom app, requires manual setup",
                          <<"R","e","v","i","e","w"," ","a","p","p"," ","r","e","q","u","i","r","e","m","e","n","t","s"," ","a","n","d"," ","s","e","t","u","p"," ","i","n"," ","t","a","r","g","e","t"," ","o","r","g">>)

validateAppsIntegrations(apps, capabilities) ==
    [k \in 1..Len(apps.InstalledGitHubApps) |->
        validateApp(apps.InstalledGitHubApps[k], capabilities)]

\* body of the team loop of validateAccessPermissions
validateTeam(team, capabilities) ==
    LET teamName == extractTeamName(team) IN
    IF isTeamAvailable(teamName, capabilities.Teams)
    THEN ValidationResult(team, ValidationReady,
                          "Team exists in target organization", <<>>)
    ELSE ValidationResult(team, ValidationBlocker,
                          "Team does not exist in target organization",
                          <<"C","r","e","a","t","e"," ","t","e","a","m"," ","'">> \o teamName \o <<"'"," ","i","n"," ","t","a","r","g","e","t"," ","o","r","g","a","n","i","z","a","t","i","o","n">>)

\* body of the CODEOWNERS loop of validateAccessPermissions: zero or one result
validateCodeowner(requirement, capabilities) ==
    IF HasPrefix(requirement, <<"T","e","a","m",":"," ","@">>)
    THEN LET teamRef == TrimPrefix(requirement, <<"T","e","a","m",":"," ","@">>)
             parts == Split(teamRef, <<"/">>)
         IN  IF Len(parts) = 2
             THEN LET teamName == parts[2] IN
                  IF isTeamAvailable(teamName, capabilities.Teams)
                  THEN <<ValidationResult(requirement, ValidationReady,
                            "CODEOWNERS team exists in target organization", <<>>)>>
                  ELSE <<ValidationResult(requirement, ValidationBlocker,
                            "CODEOWNERS team does not exist in target organization",
                            <<"C","r","e","a","t","e"," ","t","e","a","m"," ","'">> \o teamName
                                \o <<"'"," ","i","n"," ","t","a","r","g","e","t"," ","o","r","g","a","n","i","z","a","t","i","o","n"," ","o","r"," ","u","p","d","a","t","e"," ","C","O","D","E","O","W","N","E","R","S">>)>>
             ELSE <<>>
    ELSE IF HasPrefix(requirement, <<"U","s","e","r",":"," ","@">>)
    THEN <<ValidationResult(requirement, ValidationWarning,
              "CODEOWNERS user requires manual setup in target organization",
              <<"I","n","v","i","t","e"," ","u","s","e","r"," ","t","o"," ","t","a","r","g","e","t"," ","o","r","g","a","n","i","z","a","t","i","o","n"," ","o","r"," ","u","p","d","a","t","e"," ","C","O","D","E","O","W","N","E","R","S">>)>>
    ELSE <<>>

\* validateAccessPermissions with the status of a collaborator depending on the target's teams
validateAccessPermissionsCollaboratorReview(access, capabilities, assignTeams) ==
    [k \in 1..Len(access.Teams) |-> validateTeam(access.Teams[k], capabilities)]
    \o [k \in 1..Len(access.IndividualCollaborators) |->
          ValidationResult(access.IndividualCollaborators[k],
              IF capabilities.Teams = <<>> THEN ValidationReview ELSE ValidationWarning,
              "Individual access requires manual setup in target organization",
              <<"I","n","v","i","t","e"," ","u","s","e","r"," ","t","o"," ","t","a","r","g","e","t"," ","o","r","g","a","n","i","z","a","t","i","o","n"," ","a","n","d"," ","c","o","n","f","i","g","u","r","e"," ","p","e","r","m","i","s","s","i","o","n","s">>)]
    \o Flatten([k \in 1..Len(access.CodeownersRequirements) |->
          validateCodeowner(access.CodeownersRequirements[k], capabilities)])

\* a slip a maintainer could make: taking a missing team for something the
\* transfer will set up when teams are to be assigned
validateAccessPermissionsUsingFlag(access, capabilities, assignTeams) ==
    [k \in 1..Len(access.Teams) |->
          IF assignTeams /\ validateTeam(access.Teams[k], capabilities).Status = ValidationBlocker
          THEN [validateTeam(access.Teams[k], capabilities) EXCEPT
                   !.Status = ValidationSetupNeeded]
          ELSE validateTeam(access.Teams[k], capabilities)]
    \o [k \in 1..Len(access.IndividualCollaborators) |->
          ValidationResult(access.IndividualCollaborators[k], ValidationWarning,
              "Individual access requires manual setup in target organization",
              <<"I","n","v","i","t","e"," ","u","s","e","r"," ","t","o"," ","t","a","r","g","e","t"," ","o","r","g","a","n","i","z","a","t","i","o","n"," ","a","n","d"," ","c","o","n","f","i","g","u","r","e"," ","p","e","r","m","i","s","s","i","o","n","s">>)]
    \o Flatten([k \in 1..Len(access.CodeownersRequirements) |->
          validateCodeowner(access.CodeownersRequirements[k], capabilities)])

validateAccessPermissions(access, capabilities, assignTeams) ==
    [k \in 1..Len(access.Teams) |-> validateTeam(access.Teams[k], capabilities)]
    \o [k \in 1..Len(access.IndividualCollaborators) |->
          ValidationResult(access.IndividualCollaborators[k], ValidationWarning,
              "Individual access requires manual setup in target organization",
              <<"I","n","v","i","t","e"," ","u","s","e","r"," ","t","o"," ","t","a","r","g","e","t"," ","o","r","g","a","n","i","z","a","t","i","o","n"," ","a","n","d"," ","c","o","n","f","i","g","u","r","e"," ","p","e","r","m","i","s","s","i","o","n","s">>)]
    \o Flatten([k \in 1..Len(access.CodeownersRequirements) |->
          validateCodeowner(access.CodeownersRequirements[k], capabilities)])

validateSecret(secret, capabilities) ==
    LET secretName == extractSecretName(secret) IN
    IF isSecretAvailable(secretName, capabilities.Secrets)
    THEN ValidationResult(secret, ValidationReady,
                          "Secret exists in target organization", <<>>)
    ELSE ValidationResult(secret, ValidationSetupNeeded,
                          "Secret needs to be created in target organization",
                          <<"C","r","e","a","t","e"," ","s","e","c","r","e","t"," ","'">> \o secretName \o <<"'"," ","i","n"," ","t","a","r","g","e","t"," ","o","r","g","a","n","i","z","a","t","i","o","n">>)

validateVariable(variable, capabilities) ==
    LET variableName == extractVariableName(variable) IN
    IF isVariableAvailable(variableName, capabilities.Variables)
    THEN ValidationResult(variable, ValidationReady,
                          "Variable exists in target organization", <<>>)
    ELSE ValidationResult(variable, ValidationSetupNeeded,
                          "Variable needs to be created in target organization",
                          <<"C","r","e","a","t","e"," ","v","a","r","i","a","b","l","e"," ","'">> \o variableName \o <<"'"," ","i","n"," ","t","a","r","g","e","t"," ","o","r","g","a","n","i","z","a","t","i","o","n">>)

validateRunner(runner, capabilities) ==
    LET runnerName == extractRunnerName(runner) IN
    IF isRunnerAvailable(runnerName, capabilities.Runners)
    THEN ValidationResult(runner, ValidationReady,
                          "Runner is available in target organization", <<>>)
    ELSE ValidationResult(runner, ValidationSetupNeeded,
                          "Self-hosted runner needs to be set up",
                          <<"C","o","n","f","i","g","u","r","e"," ","r","u","n","n","e","r"," ","'">> \o runnerName \o <<"'"," ","i","n"," ","t","a","r","g","e","t"," ","o","r","g","a","n","i","z","a","t","i","o","n">>)

validateCIDependencies(ci, capabilities) ==
    [k \in 1..Len(ci.OrganizationSecrets) |->
        validateSecret(ci.OrganizationSecrets[k], capabilities)]
    \o [k \in 1..Len(ci.OrganizationVariables) |->
        validateVariable(ci.OrganizationVariables[k], capabilities)]
    \o [k \in 1..Len(ci.SelfHostedRunners) |->
        validateRunner(ci.SelfHostedRunners[k], capabilities)]
    \o [k \in 1..Len(ci.RequiredWorkflows) |->
        ValidationResult(ci.RequiredWorkflows[k], ValidationReview,
            "Required workflow policy needs manual configuration",
            <<"S","e","t"," ","u","p"," ","e","q","u","i","v","a","l","e","n","t"," ","r","e","q","u","i","r","e","d"," ","w","o","r","k","f","l","o","w"," ","p","o","l","i","c","y"," ","i","n"," ","t","a","r","g","e","t"," ","o","r","g","a","n","i","z","a","t","i","o","n">>)]

memberPrivilegeKeywords ==
    <<<<"m","e","m","b","e","r"," ","m","a","n","a","g","e","m","e","n","t">>, <<"r","e","p","o","s","i","t","o","r","y"," ","c","r","e","a","t","i","o","n">>, <<"p","r","i","v","a","t","e"," ","r","e","p","o","s","i","t","o","r","y"," ","f","o","r","k","i","n","g">>,
      <<"t","w","o","-","f","a","c","t","o","r"," ","a","u","t","h","e","n","t","i","c","a","t","i","o","n">>, <<"w","e","b"," ","c","o","m","m","i","t"," ","s","i","g","n","o","f","f">>>>

\* validation.isMemberPrivilegePolicy (the classifier's own heuristic)
isMemberPrivilegePolicy(policy) ==
    \/ \E k \in 1..Len(memberPrivilegeKeywords) :
          Contains(ToLower(policy.Name), memberPrivilegeKeywords[k])
    \/ \E r \in 1..Len(policy.Restrictions) :
          \E k \in 1..Len(memberPrivilegeKeywords) :
             Contains(ToLower(policy.Restrictions[r]), memberPrivilegeKeywords[k])

\* the switch of validateMemberPrivilegePolicy for one restriction: the missing
\* restrictions it adds (the first matching case decides)
missingForRestriction(restriction, targetPrivileges) ==
    LET restrictionLower == ToLower(restriction) IN
    IF Contains(restrictionLower, <<"r","e","p","o","s","i","t","o","r","y"," ","c","r","e","a","t","i","o","n"," ","r","e","s","t","r","i","c","t","e","d">>)
    THEN (IF targetPrivileges.CanCreateRepos
          THEN <<<<"R","e","p","o","s","i","t","o","r","y"," ","c","r","e","a","t","i","o","n"," ","n","e","e","d","s"," ","t","o"," ","b","e"," ","r","e","s","t","r","i","c","t","e","d">>>> ELSE <<>>)
    ELSE IF Contains(restrictionLower, <<"p","r","i","v","a","t","e"," ","r","e","p","o","s","i","t","o","r","y"," ","f","o","r","k","i","n","g"," ","r","e","s","t","r","i","c","t","e","d">>)
    THEN (IF targetPrivileges.CanForkPrivateRepos
          THEN <<<<"P","r","i","v","a","t","e"," ","r","e","p","o","s","i","t","o","r","y"," ","f","o","r","k","i","n","g"," ","n","e","e","d","s"," ","t","o"," ","b","e"," ","r","e","s","t","r","i","c","t","e","d">>>> ELSE <<>>)
    ELSE IF Contains(restrictionLower, <<"t","w","o","-","f","a","c","t","o","r"," ","a","u","t","h","e","n","t","i","c","a","t","i","o","n"," ","r","e","q","u","i","r","e","d">>)
    THEN (IF ~targetPrivileges.TwoFactorRequired
          THEN <<<<"T","w","o","-","f","a","c","t","o","r"," ","a","u","t","h","e","n","t","i","c","a","t","i","o","n"," ","n","e","e","d","s"," ","t","o"," ","b","e"," ","r","e","q","u","i","r","e","d">>>> ELSE <<>>)
    ELSE IF Contains(restrictionLower, <<"w","e","b"," ","c","o","m","m","i","t"," ","s","i","g","n","o","f","f"," ","r","e","q","u","i","r","e","d">>)
    THEN (IF ~targetPrivileges.WebCommitSignoffRequired
          THEN <<<<"W","e","b"," ","c","o","m","m","i","t"," ","s","i","g","n","o","f","f"," ","n","e","e","d","s"," ","t","o"," ","b","e"," ","r","e","q","u","i","r","e","d">>>> ELSE <<>>)
    ELSE <<>>

\* fmt.Sprintf("%s (status: %s)", policy.Name, policy.Status)
policyItem(policy) == policy.Name \o <<" ","(","s","t","a","t","u","s",":"," ">> \o policy.Status \o <<")">>

\* a slip a maintainer could make: reporting ready as soon as some of the
\* restrictions are met
validateMemberPrivilegePolicyPartlyMet(policy, targetPrivileges) ==
    LET missingRestrictions ==
            Flatten([r \in 1..Len(policy.Restrictions) |->
                        missingForRestriction(policy.Restrictions[r], targetPrivileges)])
    IN  IF Len(missingRestrictions) < Len(policy.Restrictions)
        THEN ValidationResult(policyItem(policy), ValidationReady,
                 "Member privilege settings meet policy requirements", <<>>)
        ELSE ValidationResult(policyItem(policy), ValidationSetupNeeded,
                 "Member privileges need configuration to meet policy requirements",
                 <<"C","o","n","f","i","g","u","r","e"," ","r","e","q","u","i","r","e","d"," ","r","e","s","t","r","i","c","t","i","o","n","s",":"," ">> \o Join(missingRestrictions, <<","," ">>))

validateMemberPrivilegePolicy(policy, targetPrivileges) ==
    LET missingRestrictions ==
            Flatten([r \in 1..Len(policy.Restrictions) |->
                        missingForRestriction(policy.Restrictions[r], targetPrivileges)])
    IN  IF Len(missingRestrictions) = 0
        THEN ValidationResult(policyItem(policy), ValidationReady,
                 "Member privilege settings meet policy requirements", <<>>)
        ELSE IF Len(missingRestrictions) < Len(policy.Restrictions)
        THEN ValidationResult(policyItem(policy), ValidationSetupNeeded,
                 "Some member privileges need adjustment ("
                     \o ToString(Len(missingRestrictions)) \o " missing)",
                 <<"C","o","n","f","i","g","u","r","e"," ","m","i","s","s","i","n","g"," ","r","e","s","t","r","i","c","t","i","o","n","s",":"," ">> \o Join(missingRestrictions, <<","," ">>))
        ELSE ValidationResult(policyItem(policy), ValidationSetupNeeded,
                 "Member privileges need configuration to meet policy requirements",
                 <<"C","o","n","f","i","g","u","r","e"," ","r","e","q","u","i","r","e","d"," ","r","e","s","t","r","i","c","t","i","o","n","s",":"," ">> \o Join(missingRestrictions, <<","," ">>))

validateRepositoryPolicy(policy, targetPolicies) ==
    IF \E k \in 1..Len(targetPolicies) : EqualFold(policy.Name, targetPolicies[k].Name)
    THEN ValidationResult(policyItem(policy), ValidationReview,
             "Similar repository policy found, requires verification",
             <<"V","e","r","i","f","y"," ","p","o","l","i","c","y"," ","c","o","n","f","i","g","u","r","a","t","i","o","n"," ","m","a","t","c","h","e","s"," ","r","e","q","u","i","r","e","m","e","n","t","s">>)
    ELSE ValidationResult(policyItem(policy), ValidationSetupNeeded,
             "Repository policy needs to be configured",
             <<"S","e","t"," ","u","p"," ","'">> \o policy.Name \o <<"'"," ","r","e","p","o","s","i","t","o","r","y"," ","p","o","l","i","c","y"," ","i","n"," ","t","a","r","g","e","t"," ","o","r","g","a","n","i","z","a","t","i","o","n">>)

validateGovernance(governance, capabilities) ==
    [k \in 1..Len(governance.OrganizationPolicies) |->
        IF isMemberPrivilegePolicy(governance.OrganizationPolicies[k])
        THEN validateMemberPrivilegePolicy(governance.OrganizationPolicies[k],
                                           capabilities.MemberPrivileges)
        ELSE validateRepositoryPolicy(governance.OrganizationPolicies[k],
                                      capabilities.RepositoryPolicies)]
    \o [k \in 1..Len(governance.IssueTemplates) |->
        ValidationResult(governance.IssueTemplates[k], ValidationReview,
            "Issue template requires manual setup",
            <<"C","o","p","y"," ","t","e","m","p","l","a","t","e"," ","t","o"," ","t","a","r","g","e","t"," ","o","r","g","a","n","i","z","a","t","i","o","n","'","s"," ",".","g","i","t","h","u","b"," ","r","e","p","o","s","i","t","o","r","y">>)]
    \o [k \in 1..Len(governance.PullRequestTemplates) |->
        ValidationResult(governance.PullRequestTemplates[k], ValidationReview,
            "PR template requires manual setup",
            <<"C","o","p","y"," ","t","e","m","p","l","a","t","e"," ","t","o"," ","t","a","r","g","e","t"," ","o","r","g","a","n","i","z","a","t","i","o","n","'","s"," ",".","g","i","t","h","u","b"," ","r","e","p","o","s","i","t","o","r","y">>)]

validateCodeDependencies(code, capabilities) ==
    [k \in 1..Len(code.GitSubmodules) |->
        IF Contains(code.GitSubmodules[k], <<"e","x","t","e","r","n","a","l"," ","d","e","p","e","n","d","e","n","c","y">>)
        THEN ValidationResult(code.GitSubmodules[k], ValidationReview,
                 "External repository access needs verification",
                 <<"V","e","r","i","f","y"," ","t","a","r","g","e","t"," ","o","r","g","a","n","i","z","a","t","i","o","n"," ","h","a","s"," ","a","c","c","e","s","s"," ","t","o"," ","t","h","i","s"," ","e","x","t","e","r","n","a","l"," ","r","e","p","o","s","i","t","o","r","y">>)
        ELSE ValidationResult(code.GitSubmodules[k], ValidationReview,
                 "Internal submodule, may need access setup",
                 <<"E","n","s","u","r","e"," ","t","a","r","g","e","t"," ","o","r","g"," ","h","a","s"," ","a","c","c","e","s","s"," ","t","o"," ","s","u","b","m","o","d","u","l","e"," ","r","e","p","o","s","i","t","o","r","y">>)]

\* a slip a maintainer could make: a campaign reported as not determined
validateSecurityComplianceUndetermined(security, capabilities) ==
    [k \in 1..Len(security.SecurityCampaigns) |->
        ValidationResult(security.SecurityCampaigns[k], ValidationUnknown,
            "Security campaign requires manual setup",
            <<"C","o","n","f","i","g","u","r","e"," ","e","q","u","i","v","a","l","e","n","t"," ","s","e","c","u","r","i","t","y"," ","m","e","a","s","u","r","e","s"," ","i","n"," ","t","a","r","g","e","t"," ","o","r","g","a","n","i","z","a","t","i","o","n">>)]

validateSecurityCompliance(security, capabilities) ==
    [k \in 1..Len(security.SecurityCampaigns) |->
        ValidationResult(security.SecurityCampaigns[k], ValidationReview,
            "Security campaign requires manual setup",
            <<"C","o","n","f","i","g","u","r","e"," ","e","q","u","i","v","a","l","e","n","t"," ","s","e","c","u","r","i","t","y"," ","m","e","a","s","u","r","e","s"," ","i","n"," ","t","a","r","g","e","t"," ","o","r","g","a","n","i","z","a","t","i","o","n">>)]

\* ------------------------------------------------- classifier: aggregation
\* number of results of the list with the given status
CountStatus(results, status) ==
    Cardinality({k \in 1..Len(results) : results[k].Status = status})

\* types.ValidationSummary{}
ZeroSummary ==
    [Ready |-> 0, SetupNeeded |-> 0, Blockers |-> 0, Warnings |-> 0,
     Review |-> 0, Unknown |-> 0, Total |-> 0]

\* the list calculateSummary walks: the six category lists appended in its order
allResultsOf(v) ==
    v.AppsIntegrations \o v.AccessPermissions \o v.CIDependencies
        \o v.Governance \o v.CodeDependencies \o v.SecurityCompliance

\* a slip a maintainer could make: one category list left out of the walk
calculateSummaryWithoutCode(v) ==
    LET allResults == v.AppsIntegrations \o v.AccessPermissions \o v.CIDependencies
                          \o v.Governance \o v.SecurityCompliance
    IN  [Ready       |-> CountStatus(allResults, ValidationReady),
         SetupNeeded |-> CountStatus(allResults, ValidationSetupNeeded),
         Blockers    |-> CountStatus(allResults, ValidationBlocker),
         Warnings    |-> CountStatus(allResults, ValidationWarning),
         Review      |-> CountStatus(allResults, ValidationReview),
         Unknown     |-> 0,
         Total       |-> Len(allResults)]

\* one iteration of the loop of calculateSummary
summaryStep(summary, result) ==
    LET s == [summary EXCEPT !.Total = @ + 1] IN
    CASE result.Status = ValidationReady       -> [s EXCEPT !.Ready = @ + 1]
      [] result.Status = ValidationSetupNeeded -> [s EXCEPT !.SetupNeeded = @ + 1]
      [] result.Status = ValidationBlocker     -> [s EXCEPT !.Blockers = @ + 1]
      [] result.Status = ValidationWarning     -> [s EXCEPT !.Warnings = @ + 1]
      [] result.Status = ValidationReview      -> [s EXCEPT !.Review = @ + 1]
      [] OTHER                                 -> [s EXCEPT !.Unknown = @ + 1]

RECURSIVE summaryLoop(_, _)
summaryLoop(summary, results) ==
    IF results = <<>> THEN summary
    ELSE summaryLoop(summaryStep(summary, Head(results)), Tail(results))

calculateSummary(v) == summaryLoop(ZeroSummary, allResultsOf(v))

\* a slip a maintainer could make: setup_needed tested before blockers
determineOverallReadinessSetupFirst(summary) ==
    IF summary.SetupNeeded > 0 \/ summary.Review > 0 THEN ValidationSetupNeeded
    ELSE IF summary.Blockers > 0 THEN ValidationBlocker
    ELSE IF summary.Warnings > 0 THEN ValidationWarning
    ELSE IF summary.Ready = summary.Total THEN ValidationReady
    ELSE ValidationUnknown

determineOverallReadiness(summary) ==
    IF summary.Blockers > 0 THEN ValidationBlocker
    ELSE IF summary.SetupNeeded > 0 \/ summary.Review > 0 THEN ValidationSetupNeeded
    ELSE IF summary.Warnings > 0 THEN ValidationWarning
    ELSE IF summary.Ready = summary.Total THEN ValidationReady
    ELSE ValidationUnknown

\* ------------------------------------------------------------- variables
VARIABLES
    \* ValidateAgainstTarget: its arguments, its result so far, its position
    deps, capabilities, assignTeams, validation, vpc,
    \* AnalyzeRepositories: the batch, the API behind the client, the position
    \* of the calling goroutine, its loop variable and what it returns
    \* (env names the outbound calls that may fail in this run: those of the
    \* phase-1 loaders or those of the per-repository analyzers)
    repos, world, env, pc, loopI, results, batchErr,
    \* phase 1: each loader's position and invocation count, the errors
    \* collected, the OrganizationContext, the backing array of its
    \* RepositoryPolicies slice, whether ba.orgCtx is set, the read locks held
    lpc, loaderCalls, errs, ctx, sharedArr, orgCtxSet, rlock,
    \* phase 2, per task: its position, the analyzers that have returned, the
    \* position of the ruleset filter, its private facts, the header of its
    \* RepositoryPolicies slice, what analyzeRepositoryWithContext returns
    tpc, adone, gpos, taskDeps, taskSlice, taskRet,
    \* bookkeeping for the properties: the outbound calls that failed (those
    \* of task t under t, the swallowed ones of phase 1 under 0) and the writes
    \* each result slot received
    faults, slotWrites

vvars == <<deps, capabilities, assignTeams, validation, vpc>>

bvars == <<repos, world, env, pc, loopI, results, batchErr,
           lpc, loaderCalls, errs, ctx, sharedArr, orgCtxSet, rlock,
           tpc, adone, gpos, taskDeps, taskSlice, taskRet,
           faults, slotWrites>>

\* the callers of the two: what the calls of ValidateAgainstTarget made so far
\* were given and returned
VARIABLES
    returned,
    \* rulesetAppliesToRepo on a ruleset's conditions: the conditions, the
    \* repository name, what it returned, its position; the Policy the batch
    \* scan stored for the ruleset and what the resolver returned on it
    conditions, resource, applies, rpc, stored, appliesStored,
    \* ScanTargetOrganization: the API of the target organization, the
    \* capabilities built so far, the requests that failed, the error it
    \* returns, its position
    targetApi, scanned, scanFailed, scanErr, spc,
    \* the transfer command: its flags and arguments, the teams of the target
    \* organization, the pre-scanned capabilities, the repositories still to
    \* process, the results, the loop position, the changing requests issued
    \* so far, the failures collected, what the command returns, the number of
    \* requests that failed, its position
    flags, transferArgs, targetOrgTeams, targetCapabilities, pending,
    transferResults, cursor, issued, failures, transferErr, transferFaults,
    transferPc,
    \* the analyzers of the batch whose outbound call never returns, each with
    \* the task it runs for
    stalled

callvars == <<returned>>

rvars == <<conditions, resource, applies, rpc, stored, appliesStored>>

svars == <<targetApi, scanned, scanFailed, scanErr, spc>>

tvars == <<flags, transferArgs, targetOrgTeams, targetCapabilities, pending,
           transferResults, cursor, issued, failures, transferErr,
           transferFaults, transferPc>>

lvars == <<stalled>>

xvars == <<callvars, rvars, svars, tvars, lvars>>

vars == <<vvars, bvars, xvars>>

\* the values the remaining variables hold while their operations do not run
CallsIdle == returned = <<>>

ResolverIdle ==
    /\ conditions = [RepositoryName |-> [Include |-> <<>>, Exclude |-> <<>>]]
    /\ resource = <<>>
    /\ applies = FALSE
    /\ rpc = "idle"
    /\ stored = <<>>
    /\ appliesStored = FALSE

ScanIdle ==
    /\ targetApi = "bare"
    /\ scanned = <<>>
    /\ scanFailed = {}
    /\ scanErr = Nil
    /\ spc = "idle"

TransferIdle ==
    /\ flags = [dryRun |-> FALSE, enforce |-> FALSE, assign |-> FALSE,
                createTeams |-> FALSE]
    /\ transferArgs = <<>>
    /\ targetOrgTeams = <<>>
    /\ targetCapabilities = <<>>
    /\ pending = <<>>
    /\ transferResults = <<>>
    /\ cursor = 0
    /\ issued = <<>>
    /\ failures = <<>>
    /\ transferErr = Nil
    /\ transferFaults = 0
    /\ transferPc = "idle"

StallIdle == stalled = {}

RestIdle ==
    /\ CallsIdle
    /\ ResolverIdle
    /\ ScanIdle
    /\ TransferIdle
    /\ StallIdle
\* --------------------------------------------- inputs of the classifier
\* types.OrganizationalDependencies{}: every list empty
EmptyDeps ==
    [Repository |-> <<>>,
     AppsIntegrations |-> [InstalledGitHubApps |-> <<>>],
     AccessPermissions |-> [Teams |-> <<>>, IndividualCollaborators |-> <<>>,
                            CodeownersRequirements |-> <<>>],
     ActionsCIDependencies |-> [OrganizationSecrets |-> <<>>,
                                OrganizationVariables |-> <<>>,
                                SelfHostedRunners |-> <<>>,
                                EnvironmentDependencies |-> <<>>,
                                OrgSpecificActions |-> <<>>,
                                RequiredWorkflows |-> <<>>,
                                CrossRepoWorkflowTriggers |-> <<>>],
     OrgGovernance |-> [OrganizationPolicies |-> <<>>, RepositoryPolicies |-> <<>>,
                        MemberPrivileges |-> <<>>, IssueTemplates |-> <<>>,
                        PullRequestTemplates |-> <<>>],
     CodeDependencies |-> [GitSubmodules |-> <<>>, OrgPackageRegistries |-> <<>>,
                           OrgSpecificContainerRegistries |-> <<>>],
     SecurityCompliance |-> [SecurityCampaigns |-> <<>>]]

\* the dependency items the facts are drawn from, each tagged with its list
AppItems ==
    {<<"d","e","p","e","n","d","a","b","o","t"," ","(","o","r","g","-","w","i","d","e"," ","i","n","s","t","a","l","l","a","t","i","o","n",")">>, <<"M","y","-","C","o","d","e","C","o","v">>,
     <<"c","u","s","t","o","m","-","a","p","p"," ","(","o","r","g","-","w","i","d","e"," ","i","n","s","t","a","l","l","a","t","i","o","n",")">>}

TeamItems == {<<"f","r","o","n","t","e","n","d"," ","(","w","r","i","t","e",")">>, <<"F","r","o","n","t","e","n","d">>, <<"d","e","v"," ","(","e","u",")"," ","(","a","d","m","i","n",")">>}

CollaboratorItems == {<<"a","l","i","c","e">>}

CodeownerItems == {<<"T","e","a","m",":"," ","@","o","r","g","/","f","r","o","n","t","e","n","d">>, <<"U","s","e","r",":"," ","@","b","o","b">>, <<"T","e","a","m",":"," ","@","a","/","b","/","c">>}

SecretItems == {<<"A","P","I","_","T","O","K","E","N"," ","(","i","n"," ","c","i",".","y","m","l",")">>, <<"A","P","I","_","T","O","K","E","N">>}

VariableItems == {<<"R","E","G","I","O","N">>, <<"R","E","G","I","O","N"," ","(","i","n"," ","c","i",".","y","m","l",")">>}

RunnerItems == {<<"g","p","u","-","r","u","n","n","e","r">>, <<"S","e","l","f","-","h","o","s","t","e","d"," ","r","u","n","n","e","r",":"," ","g","p","u","-","r","u","n","n","e","r"," ","(","i","n"," ","c","i",".","y","m","l",")">>}

WorkflowItems == {<<"c","i",".","y","m","l"," ","(","I","D",":"," ","7",","," ","r","e","p","o",":"," ","O","r","g","a","n","i","z","a","t","i","o","n","/","a",","," ","r","u","l","e","s","e","t",":"," ","m","a","i","n",")">>}

PolicyItems ==
    {OrgPolicy(<<"M","e","m","b","e","r"," ","M","a","n","a","g","e","m","e","n","t"," ","P","o","l","i","c","y">>, <<"a","c","t","i","v","e">>,
               <<<<"R","e","p","o","s","i","t","o","r","y"," ","c","r","e","a","t","i","o","n"," ","r","e","s","t","r","i","c","t","e","d">>,
                 <<"P","r","i","v","a","t","e"," ","r","e","p","o","s","i","t","o","r","y"," ","f","o","r","k","i","n","g"," ","r","e","s","t","r","i","c","t","e","d">>>>),
     OrgPolicy(<<"S","e","c","u","r","i","t","y"," ","P","o","l","i","c","y">>, <<"a","c","t","i","v","e">>,
               <<<<"T","w","o","-","f","a","c","t","o","r"," ","a","u","t","h","e","n","t","i","c","a","t","i","o","n"," ","r","e","q","u","i","r","e","d">>>>),
     OrgPolicy(<<"m","a","i","n","-","p","r","o","t","e","c","t","i","o","n">>, <<"a","c","t","i","v","e">>,
               <<<<"E","n","f","o","r","c","e","m","e","n","t",":"," ","a","c","t","i","v","e">>, <<"T","a","r","g","e","t","s"," ","r","e","p","o","s",":"," ","a">>>>)}

IssueTemplateItems == {<<".","g","i","t","h","u","b","/","I","S","S","U","E","_","T","E","M","P","L","A","T","E"," ","i","n"," ","a","c","m","e","/",".","g","i","t","h","u","b">>}

PullRequestTemplateItems == {<<".","g","i","t","h","u","b","/","P","U","L","L","_","R","E","Q","U","E","S","T","_","T","E","M","P","L","A","T","E"," ","i","n"," ","a","c","m","e","/",".","g","i","t","h","u","b">>}

SubmoduleItems == {<<"h","t","t","p","s",":","/","/","g","i","t","h","u","b",".","c","o","m","/","a","c","m","e","/","l","i","b"," ","(","s","a","m","e"," ","o","r","g","a","n","i","z","a","t","i","o","n",")">>}

CampaignItems == {<<"S","e","c","u","r","i","t","y"," ","c","a","m","p","a","i","g","n",":"," ","r","o","t","a","t","e"," ","(","o","p","e","n",")">>}

Tag(cat, S) == {[cat |-> cat, val |-> v] : v \in S}

TaggedItems ==
    Tag("app", AppItems) \cup Tag("team", TeamItems)
    \cup Tag("collaborator", CollaboratorItems) \cup Tag("codeowner", CodeownerItems)
    \cup Tag("secret", SecretItems) \cup Tag("variable", VariableItems)
    \cup Tag("runner", RunnerItems) \cup Tag("workflow", WorkflowItems)
    \cup Tag("policy", PolicyItems) \cup Tag("issueTemplate", IssueTemplateItems)
    \cup Tag("prTemplate", PullRequestTemplateItems)
    \cup Tag("submodule", SubmoduleItems) \cup Tag("campaign", CampaignItems)

\* the items of one list, in the order given
RECURSIVE ItemsOf(_, _)
ItemsOf(items, cat) ==
    IF items = <<>> THEN <<>>
    ELSE (IF Head(items).cat = cat THEN <<Head(items).val>> ELSE <<>>)
         \o ItemsOf(Tail(items), cat)

\* the facts record that holds the given items
FactsOf(items) ==
    [Repository |-> <<"a","c","m","e","/","a">>,
     AppsIntegrations |-> [InstalledGitHubApps |-> ItemsOf(items, "app")],
     AccessPermissions |-> [Teams |-> ItemsOf(items, "team"),
                            IndividualCollaborators |-> ItemsOf(items, "collaborator"),
                            CodeownersRequirements |-> ItemsOf(items, "codeowner")],
     ActionsCIDependencies |-> [OrganizationSecrets |-> ItemsOf(items, "secret"),
                                OrganizationVariables |-> ItemsOf(items, "variable"),
                                SelfHostedRunners |-> ItemsOf(items, "runner"),
                                EnvironmentDependencies |-> <<>>,
                                OrgSpecificActions |-> <<>>,
                                RequiredWorkflows |-> ItemsOf(items, "workflow"),
                                CrossRepoWorkflowTriggers |-> <<>>],
     OrgGovernance |-> [OrganizationPolicies |-> ItemsOf(items, "policy"),
                        RepositoryPolicies |-> <<>>,
                        MemberPrivileges |-> <<>>,
                        IssueTemplates |-> ItemsOf(items, "issueTemplate"),
                        PullRequestTemplates |-> ItemsOf(items, "prTemplate")],
     CodeDependencies |-> [GitSubmodules |-> ItemsOf(items, "submodule"),
                           OrgPackageRegistries |-> <<>>,
                           OrgSpecificContainerRegistries |-> <<>>],
     SecurityCompliance |-> [SecurityCampaigns |-> ItemsOf(items, "campaign")]]

FactsUniverse == {FactsOf(items) : items \in SeqsUpTo(TaggedItems, MaxItems)}

\* types.OrgMemberPrivileges
MemberPrivileges(create, fork, twoFactor, signoff) ==
    [CanCreateRepos |-> create, CanForkPrivateRepos |-> fork,
     TwoFactorRequired |-> twoFactor, WebCommitSignoffRequired |-> signoff]

\* types.TargetOrgCapabilities
Capabilities(teams, apps, secrets, variables, runners, policies, privileges) ==
    [Organization |-> <<"t","a","r","g","e","t">>, Teams |-> teams, Apps |-> apps,
     Secrets |-> secrets, Variables |-> variables, Runners |-> runners,
     RepositoryPolicies |-> policies, MemberPrivileges |-> privileges]

\* the target organizations the classifier is run against
CapabilitiesUniverse ==
    {Capabilities(<<>>, <<>>, <<>>, <<>>, <<>>, <<>>,
                  MemberPrivileges(FALSE, FALSE, FALSE, FALSE)),
     Capabilities(<<<<"F","R","O","N","T","E","N","D">>>>, <<<<"D","e","p","e","n","d","a","b","o","t">>>>, <<<<"a","p","i","_","t","o","k","e","n">>>>,
                  <<<<"r","e","g","i","o","n">>>>, <<>>, <<>>,
                  MemberPrivileges(TRUE, FALSE, TRUE, FALSE)),
     Capabilities(<<<<"o","p","s">>, <<"d","e","v"," ","(","e","u",")">>>>, <<<<"c","u","s","t","o","m","-","a","p","p">>, <<"m","y","-","c","o","d","e","c","o","v">>>>,
                  <<<<"A","P","I","_","T","O","K","E","N"," ","(","i","n"," ","c","i",".","y","m","l",")">>>>, <<>>, <<<<"G","P","U","-","R","u","n","n","e","r">>>>,
                  <<OrgPolicy(<<"S","E","C","U","R","I","T","Y"," ","P","O","L","I","C","Y">>, <<"a","c","t","i","v","e">>, <<>>)>>,
                  MemberPrivileges(TRUE, TRUE, FALSE, FALSE)),
     Capabilities(<<<<"d","e","v">>, <<"f","r","o","n","t","e","n","d"," ","(","w","r","i","t","e",")">>>>, <<<<"c","o","d","e","c","o","v">>>>, <<>>, <<>>, <<>>,
                  <<OrgPolicy(<<"m","a","i","n","-","p","r","o","t","e","c","t","i","o","n">>, <<"a","c","t","i","v","e">>, <<>>)>>,
                  MemberPrivileges(FALSE, FALSE, TRUE, TRUE))}

\* ------------------------------------- ValidateAgainstTarget, step by step
\* &types.MigrationValidation{TargetOrganization: ..., Summary: ValidationSummary{}}
NewValidation(caps) ==
    [TargetOrganization |-> caps.Organization, OverallReadiness |-> <<>>,
     Summary |-> ZeroSummary,
     AppsIntegrations |-> <<>>, AccessPermissions |-> <<>>, CIDependencies |-> <<>>,
     Governance |-> <<>>, CodeDependencies |-> <<>>, SecurityCompliance |-> <<>>]

\* ValidateCategories with the access results collected in a list that outlives
\* the call
ValidateCategoriesKeepingResults ==
    /\ vpc = "call"
    /\ validation' =
          [NewValidation(capabilities) EXCEPT
              !.AppsIntegrations =
                  validateAppsIntegrations(deps.AppsIntegrations, capabilities),
              !.AccessPermissions =
                  (IF returned = <<>> THEN <<>>
                   ELSE returned[Len(returned)].validation.AccessPermissions)
                  \o validateAccessPermissions(deps.AccessPermissions, capabilities,
                                               assignTeams),
              !.CIDependencies =
                  validateCIDependencies(deps.ActionsCIDependencies, capabilities),
              !.Governance = validateGovernance(deps.OrgGovernance, capabilities),
              !.CodeDependencies =
                  validateCodeDependencies(deps.CodeDependencies, capabilities),
              !.SecurityCompliance =
                  validateSecurityCompliance(deps.SecurityCompliance, capabilities)]
    /\ vpc' = "summary"
    /\ UNCHANGED <<deps, capabilities, assignTeams>>
    /\ UNCHANGED <<bvars, xvars>>

\* lines 12-23: the six category validators fill the six lists
ValidateCategories ==
    /\ vpc = "call"
    /\ validation' =
          [NewValidation(capabilities) EXCEPT
              !.AppsIntegrations =
                  validateAppsIntegrations(deps.AppsIntegrations, capabilities),
              !.AccessPermissions =
                  validateAccessPermissions(deps.AccessPermissions, capabilities,
                                            assignTeams),
              !.CIDependencies =
                  validateCIDependencies(deps.ActionsCIDependencies, capabilities),
              !.Governance = validateGovernance(deps.OrgGovernance, capabilities),
              !.CodeDependencies =
                  validateCodeDependencies(deps.CodeDependencies, capabilities),
              !.SecurityCompliance =
                  validateSecurityCompliance(deps.SecurityCompliance, capabilities)]
    /\ vpc' = "summary"
    /\ UNCHANGED <<deps, capabilities, assignTeams>>
    /\ UNCHANGED <<bvars, xvars>>

\* line 26
ValidateSummary ==
    /\ vpc = "summary"
    /\ validation' = [validation EXCEPT !.Summary = calculateSummary(validation)]
    /\ vpc' = "readiness"
    /\ UNCHANGED <<deps, capabilities, assignTeams>>
    /\ UNCHANGED <<bvars, xvars>>

\* lines 27-29
ValidateReadiness ==
    /\ vpc = "readiness"
    /\ validation' = [validation EXCEPT
                        !.OverallReadiness = determineOverallReadiness(validation.Summary)]
    /\ vpc' = "done"
    /\ UNCHANGED <<deps, capabilities, assignTeams>>
    /\ UNCHANGED <<bvars, xvars>>

\* ------------------------------------------------ batch: the API behind it
Owner == <<"a","c","m","e">>

RepoNames == <<<<"a">>, <<"b">>, <<"c">>, <<"d">>>>

\* the well-formed identifier offered at position k of a batch
ValidSpec(k) == Owner \o <<"/">> \o RepoNames[k]

\* identifiers that do not split into owner and name
MalformedSpecs == {<<"a","c","m","e">>, <<"a","c","m","e","/","a","/","x">>}

\* the batches AnalyzeRepositories is called with
BatchInputs ==
    {r \in SeqsUpTo({ValidSpec(k) : k \in 1..MaxRepos} \cup MalformedSpecs, MaxRepos) :
        \A k \in 1..Len(r) : r[k] \in {ValidSpec(k)} \cup MalformedSpecs}

\* parseRepository: strings.Split(repoSpec, "/") must give two parts
parseRepository(repoSpec) ==
    LET parts == Split(repoSpec, <<"/">>) IN
    IF Len(parts) # 2
    THEN [owner |-> <<>>, repo |-> <<>>, err |-> "repository must be in format 'owner/repo'"]
    ELSE [owner |-> parts[1], repo |-> parts[2], err |-> Nil]

\* GET orgs/{owner}: the fields the loaders read
OrgInfo(perm, createRepos, forkPrivate, deleteRepos, deleteIssues, createTeams,
        twoFactor, signoff) ==
    [DefaultRepositoryPermission |-> perm, MembersCanCreateRepos |-> createRepos,
     MembersCanForkPrivateRepos |-> forkPrivate, MembersCanDeleteRepos |-> deleteRepos,
     MembersCanDeleteIssues |-> deleteIssues, MembersCanCreateTeams |-> createTeams,
     TwoFactorRequirementEnabled |-> twoFactor, WebCommitSignoffRequired |-> signoff]

\* the zero value of the OrgInfo struct
ZeroOrgInfo == OrgInfo(<<>>, FALSE, FALSE, FALSE, FALSE, FALSE, FALSE, FALSE)

\* one element of GET orgs/{owner}/rulesets
Ruleset(name, enforcement, target, include, exclude, protected, rules) ==
    [Name |-> name, Enforcement |-> enforcement, Target |-> target,
     Include |-> include, Exclude |-> exclude, Protected |-> protected,
     Rules |-> rules]

\* the rulesets of the two source organizations
RulesetsOne ==
    <<Ruleset(<<"o","n","l","y","-","a">>, <<"a","c","t","i","v","e">>, <<"r","e","p","o","s","i","t","o","r","y">>, <<<<"a">>>>, <<>>, FALSE,
              <<<<"d","e","l","e","t","i","o","n">>>>),
      Ruleset(<<"b","r","a","n","c","h","e","s">>, <<"a","c","t","i","v","e">>, <<"b","r","a","n","c","h">>, <<>>, <<>>, FALSE, <<>>)>>

RulesetsTwo ==
    <<Ruleset(<<"o","n","l","y","-","a">>, <<"a","c","t","i","v","e">>, <<"r","e","p","o","s","i","t","o","r","y">>, <<<<"a">>>>, <<>>, FALSE,
              <<<<"d","e","l","e","t","i","o","n">>>>),
      Ruleset(<<"a","l","l","-","b","u","t","-","a">>, <<"e","v","a","l","u","a","t","e">>, <<"r","e","p","o","s","i","t","o","r","y">>, <<>>, <<<<"a">>>>, FALSE, <<>>)>>

OrgInstallations ==
    <<[AppName |-> <<"d","e","p","e","n","d","a","b","o","t">>, AppSlug |-> <<>>, Name |-> <<>>],
      [AppName |-> <<>>, AppSlug |-> <<>>, Name |-> <<"C","I"," ","B","o","t">>]>>

\* the source organizations: one with member and security restrictions, whose
\* RepositoryPolicies slice ends up full, and one with none, whose
\* RepositoryPolicies slice ends up with spare capacity
WorldOf ==
    [restricted |->
     [orgInfo |-> OrgInfo(<<"w","r","i","t","e">>, FALSE, TRUE, TRUE, TRUE, TRUE, TRUE, FALSE),
      installations |-> OrgInstallations, rulesets |-> RulesetsOne,
      securityMd |-> FALSE, dependabotYml |-> FALSE, githubRepo |-> TRUE,
      templateDirs |-> {<<"I","S","S","U","E","_","T","E","M","P","L","A","T","E">>, <<".","g","i","t","h","u","b","/","P","U","L","L","_","R","E","Q","U","E","S","T","_","T","E","M","P","L","A","T","E">>,
                        <<"P","U","L","L","_","R","E","Q","U","E","S","T","_","T","E","M","P","L","A","T","E">>},
      campaigns |-> <<<<"r","o","t","a","t","e","-","k","e","y","s">>>>],
     open |->
     [orgInfo |-> OrgInfo(<<"r","e","a","d">>, TRUE, TRUE, TRUE, TRUE, TRUE, FALSE, FALSE),
      installations |-> OrgInstallations, rulesets |-> RulesetsTwo,
      securityMd |-> TRUE, dependabotYml |-> FALSE, githubRepo |-> FALSE,
      templateDirs |-> {},
      campaigns |-> <<>>]]

Worlds == DOMAIN WorldOf

\* what the per-repository calls return for the repository named repo, already
\* reduced to the items the scrapers extract from them
RepoApi(repo) ==
    [gitmodules   |-> <<<<"l","i","b","-">> \o repo \o <<" ","(","s","a","m","e"," ","o","r","g","a","n","i","z","a","t","i","o","n",")">>>>,
     packages     |-> <<<<".","n","p","m","r","c">>>>,
     docker       |-> <<>>,
     workflows    |-> [secrets   |-> <<<<"A","P","I","_","T","O","K","E","N"," ","(","i","n"," ","c","i",".","y","m","l",")">>>>,
                       variables |-> <<<<"R","E","G","I","O","N"," ","(","i","n"," ">> \o repo \o <<".","y","m","l",")">>>>,
                       runners   |-> <<>>,
                       actions   |-> <<>>,
                       triggers  |-> <<>>],
     rulesets     |-> <<<<"c","i",".","y","m","l"," ","(","I","D",":"," ","7",","," ","r","e","p","o",":"," ","O","r","g","a","n","i","z","a","t","i","o","n","/">> \o repo \o <<","," ","r","u","l","e","s","e","t",":"," ","m","a","i","n",")">>>>,
     environments |-> <<<<"E","n","v","i","r","o","n","m","e","n","t",":"," ","p","r","o","d">>>>,
     access       |-> [teams         |-> <<<<"t","e","a","m","-">> \o repo \o <<" ","(","w","r","i","t","e",")">>>>,
                       collaborators |-> <<<<"a","l","i","c","e">>>>,
                       codeowners    |-> <<<<"T","e","a","m",":"," ","@","a","c","m","e","/","t","e","a","m","-">> \o repo>>],
     campaigns    |-> <<<<"S","e","c","u","r","i","t","y"," ","c","a","m","p","a","i","g","n",":"," ","r","o","t","a","t","e","-","k","e","y","s"," ","(","o","p","e","n",")">>>>]

\* the outbound calls of each per-repository analyzer
CodeCalls == {"gitmodules", "packages", "docker"}

CICalls == {"workflows", "rulesets", "environments"}

AccessCalls == {"access"}

SecurityCalls == {"campaigns"}

Analyzers == {"code", "ci", "access", "security"}

Loaders == {"apps", "governance", "info", "campaigns"}

\* ------------------------------------------- batch: the org-level loaders
\* dependencies.AnalyzeAppsIntegrationsOrgLevel, the loop over the installations
orgLevelApps(installations) ==
    [k \in 1..Len(installations) |->
        LET inst == installations[k]
            byName == inst.AppName
            bySlug == IF byName = <<>> THEN inst.AppSlug ELSE byName
            appInfo == IF bySlug = <<>> /\ inst.Name # <<>> THEN inst.Name ELSE bySlug
        IN  appInfo \o <<" ","(","o","r","g","-","w","i","d","e"," ","i","n","s","t","a","l","l","a","t","i","o","n",")">>]

\* checkSecurityAndMemberPoliciesOrgLevel: the policies it appends for orgInfo
memberAndSecurityPolicies(orgInfo) ==
    LET membershipRestrictions ==
            (IF ~orgInfo.MembersCanCreateRepos
             THEN <<<<"R","e","p","o","s","i","t","o","r","y"," ","c","r","e","a","t","i","o","n"," ","r","e","s","t","r","i","c","t","e","d">>>> ELSE <<>>)
            \o (IF ~orgInfo.MembersCanForkPrivateRepos
                THEN <<<<"P","r","i","v","a","t","e"," ","r","e","p","o","s","i","t","o","r","y"," ","f","o","r","k","i","n","g"," ","r","e","s","t","r","i","c","t","e","d">>>> ELSE <<>>)
            \o (IF ~orgInfo.MembersCanDeleteRepos
                THEN <<<<"R","e","p","o","s","i","t","o","r","y"," ","d","e","l","e","t","i","o","n"," ","r","e","s","t","r","i","c","t","e","d">>>> ELSE <<>>)
            \o (IF ~orgInfo.MembersCanDeleteIssues
                THEN <<<<"I","s","s","u","e"," ","d","e","l","e","t","i","o","n"," ","r","e","s","t","r","i","c","t","e","d">>>> ELSE <<>>)
            \o (IF ~orgInfo.MembersCanCreateTeams
                THEN <<<<"T","e","a","m"," ","c","r","e","a","t","i","o","n"," ","r","e","s","t","r","i","c","t","e","d">>>> ELSE <<>>)
        securityRestrictions ==
            (IF orgInfo.TwoFactorRequirementEnabled
             THEN <<<<"T","w","o","-","f","a","c","t","o","r"," ","a","u","t","h","e","n","t","i","c","a","t","i","o","n"," ","r","e","q","u","i","r","e","d">>>> ELSE <<>>)
            \o (IF orgInfo.WebCommitSignoffRequired
                THEN <<<<"W","e","b"," ","c","o","m","m","i","t"," ","s","i","g","n","o","f","f"," ","r","e","q","u","i","r","e","d">>>> ELSE <<>>)
            \o (IF orgInfo.DefaultRepositoryPermission # <<"r","e","a","d">>
                THEN <<<<"D","e","f","a","u","l","t"," ","r","e","p","o","s","i","t","o","r","y"," ","p","e","r","m","i","s","s","i","o","n",":"," ">>
                         \o orgInfo.DefaultRepositoryPermission>>
                ELSE <<>>)
    IN  (IF Len(membershipRestrictions) > 0
         THEN <<OrgPolicy(<<"M","e","m","b","e","r"," ","M","a","n","a","g","e","m","e","n","t"," ","P","o","l","i","c","y">>, <<"a","c","t","i","v","e">>, membershipRestrictions)>>
         ELSE <<>>)
        \o (IF Len(securityRestrictions) > 0
            THEN <<OrgPolicy(<<"S","e","c","u","r","i","t","y"," ","P","o","l","i","c","y">>, <<"a","c","t","i","v","e">>, securityRestrictions)>>
            ELSE <<>>)

\* analyzeOrgRepositoryRulesets: the restriction strings written for one ruleset
rulesetRestrictions(ruleset) ==
    <<<<"E","n","f","o","r","c","e","m","e","n","t",":"," ">> \o ruleset.Enforcement>>
    \o (IF Len(ruleset.Include) > 0
        THEN <<<<"T","a","r","g","e","t","s"," ","r","e","p","o","s",":"," ">> \o Join(ruleset.Include, <<","," ">>)>>
        ELSE IF Len(ruleset.Exclude) = 0 /\ ~ruleset.Protected
        THEN <<<<"T","a","r","g","e","t","s"," ","r","e","p","o","s",":"," ","A","l","l"," ","r","e","p","o","s","i","t","o","r","i","e","s">>>>
        ELSE <<>>)
    \o (IF Len(ruleset.Exclude) > 0
        THEN <<<<"E","x","c","l","u","d","e","s"," ","r","e","p","o","s",":"," ">> \o Join(ruleset.Exclude, <<","," ">>)>>
        ELSE <<>>)
    \o (IF ruleset.Protected THEN <<<<"A","p","p","l","i","e","s"," ","t","o"," ","p","r","o","t","e","c","t","e","d"," ","r","e","p","o","s","i","t","o","r","i","e","s">>>> ELSE <<>>)
    \o (IF Len(ruleset.Rules) > 0
        THEN <<<<"R","u","l","e","s",":"," ">> \o Join(ruleset.Rules, <<","," ">>)>>
        ELSE <<>>)

\* analyzeOrgRepositoryRulesets: the policies it appends for the rulesets listed
RECURSIVE orgRulesetPolicies(_)
orgRulesetPolicies(rulesets) ==
    IF rulesets = <<>> THEN <<>>
    ELSE (IF Head(rulesets).Target = <<"r","e","p","o","s","i","t","o","r","y">>
          THEN <<OrgPolicy(Head(rulesets).Name, Head(rulesets).Enforcement,
                           rulesetRestrictions(Head(rulesets)))>>
          ELSE <<>>)
         \o orgRulesetPolicies(Tail(rulesets))

\* analyzeSecurityPoliciesOrgLevel: the policies it appends
securityFilePolicies(w) ==
    (IF w.securityMd
     THEN <<OrgPolicy(<<"O","r","g","a","n","i","z","a","t","i","o","n"," ","S","e","c","u","r","i","t","y"," ","P","o","l","i","c","y">>, <<"a","c","t","i","v","e">>,
                      <<<<"S","E","C","U","R","I","T","Y",".","m","d"," ","f","i","l","e"," ","p","r","e","s","e","n","t">>>>)>>
     ELSE <<>>)
    \o (IF w.dependabotYml
        THEN <<OrgPolicy(<<"D","e","p","e","n","d","a","b","o","t"," ","C","o","n","f","i","g","u","r","a","t","i","o","n"," ","P","o","l","i","c","y">>, <<"a","c","t","i","v","e">>,
                         <<<<"A","u","t","o","m","a","t","e","d"," ","d","e","p","e","n","d","e","n","c","y"," ","u","p","d","a","t","e","s"," ","c","o","n","f","i","g","u","r","e","d">>>>)>>
        ELSE <<>>)

\* analyzeOrganizationTemplates: the first location of the list that exists
RECURSIVE firstTemplate(_, _, _)
firstTemplate(locations, w, owner) ==
    IF locations = <<>> THEN <<>>
    ELSE IF Head(locations) \in w.templateDirs
    THEN <<Head(locations) \o <<" ","i","n"," ">> \o owner \o <<"/",".","g","i","t","h","u","b">>>>
    ELSE firstTemplate(Tail(locations), w, owner)

issueTemplatesOf(w, owner) ==
    IF ~w.githubRepo THEN <<>>
    ELSE firstTemplate(<<<<".","g","i","t","h","u","b","/","I","S","S","U","E","_","T","E","M","P","L","A","T","E">>, <<"I","S","S","U","E","_","T","E","M","P","L","A","T","E">>>>, w, owner)

pullRequestTemplatesOf(w, owner) ==
    IF ~w.githubRepo THEN <<>>
    ELSE firstTemplate(<<<<".","g","i","t","h","u","b","/","P","U","L","L","_","R","E","Q","U","E","S","T","_","T","E","M","P","L","A","T","E">>, <<"P","U","L","L","_","R","E","Q","U","E","S","T","_","T","E","M","P","L","A","T","E">>>>,
                       w, owner)

\* dependencies.isMemberPrivilegePolicyOrgLevel
isMemberPrivilegePolicyOrgLevel(policy) ==
    LET keywords == <<<<"m","e","m","b","e","r"," ","m","a","n","a","g","e","m","e","n","t">>, <<"r","e","p","o","s","i","t","o","r","y"," ","c","r","e","a","t","i","o","n">>,
                      <<"p","r","i","v","a","t","e"," ","r","e","p","o","s","i","t","o","r","y"," ","f","o","r","k","i","n","g">>, <<"t","w","o","-","f","a","c","t","o","r"," ","a","u","t","h","e","n","t","i","c","a","t","i","o","n">>,
                      <<"w","e","b"," ","c","o","m","m","i","t"," ","s","i","g","n","o","f","f">>>>
        policyNameLower == ToLower(policy.Name)
    IN  IF Contains(policyNameLower, <<"p","o","l","i","c","y">>)
              /\ policy.Name # <<"M","e","m","b","e","r"," ","M","a","n","a","g","e","m","e","n","t"," ","P","o","l","i","c","y">>
        THEN FALSE
        ELSE \/ \E k \in 1..Len(keywords) : Contains(policyNameLower, keywords[k])
             \/ \E r \in 1..Len(policy.Restrictions) :
                   \E k \in 1..Len(keywords) :
                      Contains(ToLower(policy.Restrictions[r]), keywords[k])

\* separatePoliciesForJSONOrgLevel: the two lists it stores
separatedRepoPolicies(policies) ==
    SelectSeq(policies, LAMBDA p : ~isMemberPrivilegePolicyOrgLevel(p))

separatedMemberPrivileges(policies) ==
    Flatten([k \in 1..Len(policies) |->
                IF isMemberPrivilegePolicyOrgLevel(policies[k])
                THEN policies[k].Restrictions ELSE <<>>])

\* ---------------------------------------------------- batch: Go slices
\* capacity append gives a full slice of OrgPolicy that had capacity oldCap
appendCap(oldCap) == IF oldCap = 0 THEN 1 ELSE 2 * oldCap

\* capacity of a slice built from nil by n single appends
RECURSIVE capAfter(_)
capAfter(n) ==
    IF n = 0 THEN 0
    ELSE IF n > capAfter(n - 1) THEN appendCap(capAfter(n - 1)) ELSE capAfter(n - 1)

\* the zero value of types.OrgPolicy
ZeroPolicy == OrgPolicy(<<>>, <<>>, <<>>)

\* the backing array of a slice built from nil by appending the elements of seq
backingArray(seq) ==
    [k \in 1..capAfter(Len(seq)) |-> IF k <= Len(seq) THEN seq[k] ELSE ZeroPolicy]

\* --------------------------------------- batch: ruleset target resolver
TargetsPrefix == <<"T","a","r","g","e","t","s"," ","r","e","p","o","s",":"," ">>

ExcludesPrefix == <<"E","x","c","l","u","d","e","s"," ","r","e","p","o","s",":"," ">>

\* target == repo || strings.Contains(target, "*") for some element of the list
matchesList(list, repo) ==
    \E k \in 1..Len(list) : list[k] = repo \/ Contains(list[k], <<"*">>)

\* the first loop of BatchAnalyzer.rulesetAppliesToRepo: "true" or "false" when
\* it returns, "none" when it runs to its end
RECURSIVE targetingLoop(_, _)
targetingLoop(restrictions, repo) ==
    IF restrictions = <<>> THEN "none"
    ELSE LET restriction == Head(restrictions) IN
         IF Contains(restriction, <<"T","a","r","g","e","t","s"," ","r","e","p","o","s",":">>)
         THEN LET targets == TrimPrefix(restriction, TargetsPrefix) IN
              IF targets = <<"A","l","l"," ","r","e","p","o","s","i","t","o","r","i","e","s">> THEN "true"
              ELSE IF matchesList(Split(targets, <<","," ">>), repo) THEN "true"
              ELSE "false"
         ELSE IF /\ Contains(restriction, <<"E","x","c","l","u","d","e","s"," ","r","e","p","o","s",":">>)
                 /\ matchesList(Split(TrimPrefix(restriction, ExcludesPrefix), <<","," ">>), repo)
         THEN "false"
         ELSE targetingLoop(Tail(restrictions), repo)

\* BatchAnalyzer.rulesetAppliesToRepo
rulesetAppliesToRepo(policy, repo) ==
    LET first == targetingLoop(policy.Restrictions, repo) IN
    IF first # "none" THEN first = "true"
    ELSE ~\E k \in 1..Len(policy.Restrictions) :
             Contains(policy.Restrictions[k], <<"T","a","r","g","e","t","s"," ","r","e","p","o","s",":">>)

\* ------------------------------------ batch: the per-repository analyzers
\* facts with the items of dependencies.AnalyzeCodeDependencies added; failed
\* holds the calls of this analyzer that returned an error
AnalyzeCodeDependencies(facts, repo, failed) ==
    LET api == RepoApi(repo) IN
    [facts EXCEPT
        !.CodeDependencies.GitSubmodules =
            @ \o (IF "gitmodules" \in failed THEN <<>> ELSE api.gitmodules),
        !.CodeDependencies.OrgPackageRegistries =
            @ \o (IF "packages" \in failed THEN <<>> ELSE api.packages),
        !.CodeDependencies.OrgSpecificContainerRegistries =
            @ \o (IF "docker" \in failed THEN <<>> ELSE api.docker)]

\* a slip a maintainer could make: returning at the first sub-query that fails
AnalyzeActionsCIDependenciesFailFast(facts, repo, failed) ==
    LET api == RepoApi(repo) IN
    IF "workflows" \in failed THEN facts
    ELSE LET f1 == [facts EXCEPT
                      !.ActionsCIDependencies.OrganizationSecrets = @ \o api.workflows.secrets,
                      !.ActionsCIDependencies.OrganizationVariables = @ \o api.workflows.variables,
                      !.ActionsCIDependencies.SelfHostedRunners = @ \o api.workflows.runners,
                      !.ActionsCIDependencies.OrgSpecificActions = @ \o api.workflows.actions,
                      !.ActionsCIDependencies.CrossRepoWorkflowTriggers = @ \o api.workflows.triggers]
         IN  IF "rulesets" \in failed THEN f1
             ELSE LET f2 == [f1 EXCEPT !.ActionsCIDependencies.RequiredWorkflows =
                                          @ \o api.rulesets]
                  IN  IF "environments" \in failed THEN f2
                      ELSE [f2 EXCEPT !.ActionsCIDependencies.EnvironmentDependencies =
                                         @ \o api.environments]

\* dependencies.AnalyzeActionsCIDependencies
AnalyzeActionsCIDependencies(facts, repo, failed) ==
    LET api == RepoApi(repo)
        ok(call) == call \notin failed
    IN  [facts EXCEPT
            !.ActionsCIDependencies.OrganizationSecrets =
                @ \o (IF ok("workflows") THEN api.workflows.secrets ELSE <<>>),
            !.ActionsCIDependencies.OrganizationVariables =
                @ \o (IF ok("workflows") THEN api.workflows.variables ELSE <<>>),
            !.ActionsCIDependencies.SelfHostedRunners =
                @ \o (IF ok("workflows") THEN api.workflows.runners ELSE <<>>),
            !.ActionsCIDependencies.OrgSpecificActions =
                @ \o (IF ok("workflows") THEN api.workflows.actions ELSE <<>>),
            !.ActionsCIDependencies.CrossRepoWorkflowTriggers =
                @ \o (IF ok("workflows") THEN api.workflows.triggers ELSE <<>>),
            !.ActionsCIDependencies.RequiredWorkflows =
                @ \o (IF ok("rulesets") THEN api.rulesets ELSE <<>>),
            !.ActionsCIDependencies.EnvironmentDependencies =
                @ \o (IF ok("environments") THEN api.environments ELSE <<>>)]

\* dependencies.AnalyzeAccessPermissions: a failure leaves the category empty
AnalyzeAccessPermissions(facts, repo, failed) ==
    LET api == RepoApi(repo) IN
    IF "access" \in failed THEN facts
    ELSE [facts EXCEPT
            !.AccessPermissions.Teams = @ \o api.access.teams,
            !.AccessPermissions.IndividualCollaborators = @ \o api.access.collaborators,
            !.AccessPermissions.CodeownersRequirements = @ \o api.access.codeowners]

\* dependencies.AnalyzeSecurityCompliance
AnalyzeSecurityCompliance(facts, repo, failed) ==
    LET api == RepoApi(repo) IN
    [facts EXCEPT
        !.SecurityCompliance.SecurityCampaigns =
            @ \o (IF "campaigns" \in failed THEN <<>> ELSE api.campaigns)]

\* --------------------------------------------- batch: AnalyzeRepositories
Tasks == 1..MaxRepos

\* the zero value of OrganizationContext.Governance and of deps.OrgGovernance
ZeroGovernance == EmptyDeps.OrgGovernance

\* the OrganizationContext loadOrganizationContext starts from
NewContext(owner) ==
    [Organization |-> owner,
     Apps |-> [InstalledGitHubApps |-> <<>>],
     Governance |-> ZeroGovernance,
     SecurityCampaigns |-> <<>>,
     OrgInfo |-> ZeroOrgInfo]

\* the zero value of BatchAnalysisResult (a nil pointer is the empty tuple, a
\* pointer to the facts of task t is <<t>>)
ZeroResult == [Repository |-> <<>>, Result |-> <<>>, Error |-> Nil]

\* the values the batch variables hold before AnalyzeRepositories is called
BatchIdle ==
    /\ loopI = 0
    /\ results = <<>>
    /\ batchErr = Nil
    /\ lpc = [l \in Loaders |-> "idle"]
    /\ loaderCalls = [l \in Loaders |-> 0]
    /\ errs = {}
    /\ ctx = NewContext(<<>>)
    /\ sharedArr = <<>>
    /\ orgCtxSet = FALSE
    /\ rlock = 0
    /\ tpc = [t \in Tasks |-> "unspawned"]
    /\ adone = [t \in Tasks |-> {}]
    /\ gpos = [t \in Tasks |-> 0]
    /\ taskDeps = [t \in Tasks |-> EmptyDeps]
    /\ taskSlice = [t \in Tasks |-> [shared |-> FALSE, len |-> 0]]
    /\ taskRet = [t \in Tasks |-> [deps |-> <<>>, err |-> Nil]]
    /\ faults = [t \in 0..MaxRepos |-> {}]
    /\ slotWrites = [k \in Tasks |-> <<>>]

\* the values the classifier variables hold while no validation runs
ValidateIdle ==
    /\ deps = EmptyDeps
    /\ capabilities = Capabilities(<<>>, <<>>, <<>>, <<>>, <<>>, <<>>,
                                   MemberPrivileges(FALSE, FALSE, FALSE, FALSE))
    /\ assignTeams = FALSE
    /\ validation = NewValidation(capabilities)
    /\ vpc = "idle"

\* a batch run in which calls of the phase-1 loaders may fail
Init ==
    /\ repos \in BatchInputs
    /\ world \in Worlds
    /\ env = "loaders"
    /\ pc = "entry"
    /\ BatchIdle
    /\ ValidateIdle
    /\ RestIdle

\* the number of per-repository calls made to fail so far in this batch
FaultCount ==
    LET RECURSIVE upTo(_)
        upTo(t) == IF t = 0 THEN 0 ELSE Cardinality(faults[t]) + upTo(t - 1)
    IN  upTo(MaxRepos)

\* AnalyzeRepositories up to the start of phase 1 (batch.go 61-78 and the go
\* statements of loadOrganizationContext)
Enter ==
    /\ pc = "entry"
    /\ IF Len(repos) = 0
       THEN /\ batchErr' = "no repositories provided"
            /\ pc' = "returned"
            /\ UNCHANGED <<ctx, lpc>>
       ELSE IF parseRepository(repos[1]).err # Nil
       THEN /\ batchErr' = "failed to parse repository"
            /\ pc' = "returned"
            /\ UNCHANGED <<ctx, lpc>>
       ELSE /\ ctx' = NewContext(parseRepository(repos[1]).owner)
            /\ lpc' = [l \in Loaders |-> "running"]
            /\ pc' = "phase1"
            /\ UNCHANGED batchErr
    /\ UNCHANGED <<repos, world, env, loopI, results, loaderCalls, errs, sharedArr,
                   orgCtxSet, rlock, tpc, adone, gpos, taskDeps, taskSlice,
                   taskRet, faults, slotWrites>>
    /\ UNCHANGED <<vvars, xvars>>

\* what every loader step leaves alone
LoaderFrame ==
    /\ UNCHANGED <<repos, world, env, pc, loopI, results, batchErr, orgCtxSet, rlock,
                   tpc, adone, gpos, taskDeps, taskSlice, taskRet, slotWrites>>
    /\ UNCHANGED <<vvars, xvars>>

\* loadOrganizationApps: GET orgs/{owner}/installations succeeds or fails
LoadApps ==
    /\ lpc["apps"] = "running"
    /\ loaderCalls' = [loaderCalls EXCEPT !["apps"] = @ + 1]
    /\ lpc' = [lpc EXCEPT !["apps"] = "done"]
    /\ \/ /\ ctx' = [ctx EXCEPT !.Apps.InstalledGitHubApps =
                                    @ \o orgLevelApps(WorldOf[world].installations)]
          /\ UNCHANGED errs
       \/ /\ env = "loaders"
          /\ errs' = errs \cup {"apps"}
          /\ UNCHANGED ctx
    /\ UNCHANGED <<sharedArr, faults>>
    /\ LoaderFrame

\* loadOrganizationInfo: GET orgs/{owner} decoded into ctx.OrgInfo
LoadInfo ==
    /\ lpc["info"] = "running"
    /\ loaderCalls' = [loaderCalls EXCEPT !["info"] = @ + 1]
    /\ lpc' = [lpc EXCEPT !["info"] = "done"]
    /\ \/ /\ ctx' = [ctx EXCEPT !.OrgInfo = WorldOf[world].orgInfo]
          /\ UNCHANGED errs
       \/ /\ env = "loaders"
          /\ errs' = errs \cup {"info"}
          /\ UNCHANGED ctx
    /\ UNCHANGED <<sharedArr, faults>>
    /\ LoaderFrame

\* loadSecurityCampaigns
LoadCampaigns ==
    /\ lpc["campaigns"] = "running"
    /\ loaderCalls' = [loaderCalls EXCEPT !["campaigns"] = @ + 1]
    /\ lpc' = [lpc EXCEPT !["campaigns"] = "done"]
    /\ \/ /\ ctx' = [ctx EXCEPT !.SecurityCampaigns = @ \o WorldOf[world].campaigns]
          /\ UNCHANGED errs
       \/ /\ env = "loaders"
          /\ errs' = errs \cup {"campaigns"}
          /\ UNCHANGED ctx
    /\ UNCHANGED <<sharedArr, faults>>
    /\ LoaderFrame

\* loadOrganizationGovernance, first step: checkSecurityAndMemberPoliciesOrgLevel,
\* the only step whose failure the loader returns
GovPolicies ==
    /\ lpc["governance"] = "running"
    /\ loaderCalls' = [loaderCalls EXCEPT !["governance"] = @ + 1]
    /\ \/ /\ ctx' = [ctx EXCEPT !.Governance.OrganizationPolicies =
                                    @ \o memberAndSecurityPolicies(WorldOf[world].orgInfo)]
          /\ lpc' = [lpc EXCEPT !["governance"] = "rulesets"]
          /\ UNCHANGED errs
       \/ /\ env = "loaders"
          /\ errs' = errs \cup {"governance"}
          /\ lpc' = [lpc EXCEPT !["governance"] = "done"]
          /\ UNCHANGED ctx
    /\ UNCHANGED <<sharedArr, faults>>
    /\ LoaderFrame

\* second step: analyzeOrgRepositoryRulesets, whose failure is swallowed
GovRulesets ==
    /\ lpc["governance"] = "rulesets"
    /\ lpc' = [lpc EXCEPT !["governance"] = "finish"]
    /\ \/ /\ ctx' = [ctx EXCEPT !.Governance.OrganizationPolicies =
                                    @ \o orgRulesetPolicies(WorldOf[world].rulesets)]
          /\ UNCHANGED faults
       \/ /\ env = "loaders"
          /\ faults' = [faults EXCEPT ![0] = @ \cup {"orgRulesets"}]
          /\ UNCHANGED ctx
    /\ UNCHANGED <<loaderCalls, errs, sharedArr>>
    /\ LoaderFrame

\* last step: analyzeSecurityPoliciesOrgLevel, analyzeOrganizationTemplates and
\* separatePoliciesForJSONOrgLevel
GovFinish ==
    /\ lpc["governance"] = "finish"
    /\ lpc' = [lpc EXCEPT !["governance"] = "done"]
    /\ LET policies == ctx.Governance.OrganizationPolicies \o securityFilePolicies(WorldOf[world])
       IN  /\ ctx' = [ctx EXCEPT
                        !.Governance.OrganizationPolicies = policies,
                        !.Governance.IssueTemplates =
                            @ \o issueTemplatesOf(WorldOf[world], ctx.Organization),
                        !.Governance.PullRequestTemplates =
                            @ \o pullRequestTemplatesOf(WorldOf[world], ctx.Organization),
                        !.Governance.RepositoryPolicies = separatedRepoPolicies(policies),
                        !.Governance.MemberPrivileges = separatedMemberPrivileges(policies)]
           /\ sharedArr' = backingArray(separatedRepoPolicies(policies))
    /\ UNCHANGED <<loaderCalls, errs, faults>>
    /\ LoaderFrame

\* a slip a maintainer could make: leaving out the wg.Wait of phase 1
PhaseOneJoinNoWait ==
    /\ pc = "phase1"
    /\ orgCtxSet' = TRUE
    /\ results' = [k \in 1..Len(repos) |-> ZeroResult]
    /\ loopI' = 0
    /\ pc' = "dispatch"
    /\ UNCHANGED <<repos, world, env, batchErr, lpc, loaderCalls, errs, ctx, sharedArr,
                   rlock, tpc, adone, gpos, taskDeps, taskSlice, taskRet, faults,
                   slotWrites>>
    /\ UNCHANGED <<vvars, xvars>>

\* a slip a maintainer could make: returning the first loader error, as the
\* comment at batch.go 180 announces
PhaseOneJoinFailFast ==
    /\ pc = "phase1"
    /\ \A l \in Loaders : lpc[l] = "done"
    /\ IF errs # {}
       THEN /\ batchErr' = "failed to load organization context"
            /\ pc' = "returned"
            /\ UNCHANGED <<orgCtxSet, results, loopI>>
       ELSE /\ orgCtxSet' = TRUE
            /\ results' = [k \in 1..Len(repos) |-> ZeroResult]
            /\ loopI' = 0
            /\ pc' = "dispatch"
            /\ UNCHANGED batchErr
    /\ UNCHANGED <<repos, world, env, lpc, loaderCalls, errs, ctx, sharedArr,
                   rlock, tpc, adone, gpos, taskDeps, taskSlice, taskRet, faults,
                   slotWrites>>
    /\ UNCHANGED <<vvars, xvars>>

\* the phase-1 join: wg.Wait returns, loadOrganizationContext returns ctx and a
\* nil error whatever errs holds, ba.orgCtx is set and results is allocated
PhaseOneJoin ==
    /\ pc = "phase1"
    /\ \A l \in Loaders : lpc[l] = "done"
    /\ orgCtxSet' = TRUE
    /\ results' = [k \in 1..Len(repos) |-> ZeroResult]
    /\ loopI' = 0
    /\ pc' = "dispatch"
    /\ UNCHANGED <<repos, world, env, batchErr, lpc, loaderCalls, errs, ctx, sharedArr,
                   rlock, tpc, adone, gpos, taskDeps, taskSlice, taskRet, faults,
                   slotWrites>>
    /\ UNCHANGED <<vvars, xvars>>

\* one iteration of the loop at batch.go 89-106: go func(index, repository)(i, repo)
Dispatch ==
    /\ pc = "dispatch"
    /\ tpc' = [tpc EXCEPT ![loopI + 1] = "spawned"]
    /\ loopI' = loopI + 1
    /\ pc' = IF loopI + 1 = Len(repos) THEN "wait" ELSE "dispatch"
    /\ UNCHANGED <<repos, world, env, results, batchErr, lpc, loaderCalls, errs, ctx,
                   sharedArr, orgCtxSet, rlock, adone, gpos, taskDeps, taskSlice,
                   taskRet, faults, slotWrites>>
    /\ UNCHANGED <<vvars, xvars>>

\* what every step of a task leaves alone
TaskFrame ==
    /\ UNCHANGED <<repos, world, env, pc, loopI, batchErr, lpc, loaderCalls, errs, ctx,
                   orgCtxSet>>
    /\ UNCHANGED <<vvars, xvars>>

\* the identifier the goroutine of task t was handed
repositoryOf(t) == repos[t]

\* the repository name analyzeRepositoryWithContext parsed for task t
repoOf(t) == parseRepository(repositoryOf(t)).repo

\* analyzeRepositoryWithContext, lines 196-206: parse, allocate deps, RLock
TaskBegin(t) ==
    /\ tpc[t] = "spawned"
    /\ IF parseRepository(repositoryOf(t)).err # Nil
       THEN /\ taskRet' = [taskRet EXCEPT
                              ![t] = [deps |-> <<>>,
                                      err |-> parseRepository(repositoryOf(t)).err]]
            /\ tpc' = [tpc EXCEPT ![t] = "ret"]
            /\ UNCHANGED <<rlock, taskDeps>>
       ELSE /\ taskDeps' = [taskDeps EXCEPT
                              ![t] = [EmptyDeps EXCEPT !.Repository = repositoryOf(t)]]
            /\ rlock' = rlock + 1
            /\ tpc' = [tpc EXCEPT ![t] = "copy"]
            /\ UNCHANGED taskRet
    /\ UNCHANGED <<results, sharedArr, adone, gpos, taskSlice, faults, slotWrites>>
    /\ TaskFrame

\* a slip a maintainer could make: every task fetching the installations of the
\* organization itself, as the single-repository analyzer does
TaskCopyLoading(t) ==
    /\ tpc[t] = "copy"
    /\ loaderCalls' = [loaderCalls EXCEPT !["apps"] = @ + 1]
    /\ taskDeps' = [taskDeps EXCEPT
                      ![t] = [@ EXCEPT
                                !.AppsIntegrations.InstalledGitHubApps =
                                    orgLevelApps(WorldOf[world].installations),
                                !.OrgGovernance = ctx.Governance]]
    /\ taskSlice' = [taskSlice EXCEPT
                       ![t] = [shared |-> TRUE,
                               len |-> Len(ctx.Governance.RepositoryPolicies)]]
    /\ rlock' = rlock - 1
    /\ tpc' = [tpc EXCEPT ![t] = "analyze"]
    /\ UNCHANGED <<results, sharedArr, adone, gpos, taskRet, faults, slotWrites>>
    /\ UNCHANGED <<repos, world, env, pc, loopI, batchErr, lpc, errs, ctx, orgCtxSet>>
    /\ UNCHANGED <<vvars, xvars>>

\* lines 207-210: the two assignments from ba.orgCtx and RUnlock; the slice
\* fields of deps now share their backing arrays with the context
TaskCopy(t) ==
    /\ tpc[t] = "copy"
    /\ taskDeps' = [taskDeps EXCEPT
                      ![t] = [@ EXCEPT
                                !.AppsIntegrations.InstalledGitHubApps =
                                    ctx.Apps.InstalledGitHubApps,
                                !.OrgGovernance = ctx.Governance]]
    /\ taskSlice' = [taskSlice EXCEPT
                       ![t] = [shared |-> TRUE,
                               len |-> Len(ctx.Governance.RepositoryPolicies)]]
    /\ rlock' = rlock - 1
    /\ tpc' = [tpc EXCEPT ![t] = "analyze"]
    /\ UNCHANGED <<results, sharedArr, adone, gpos, taskRet, faults, slotWrites>>
    /\ TaskFrame

\* one of the four analyzer goroutines of task t: the analyzer called name has
\* run with the calls in failed returning errors (at most MaxFaults failing
\* calls per batch) and has left analysed in deps; an analyzer whose call
\* never returns takes no step
RunAnalyzer(t, name, failed, analysed) ==
    /\ tpc[t] = "analyze"
    /\ name \notin adone[t]
    /\ <<t, name>> \notin stalled
    /\ failed # {} => env = "calls"
    /\ Cardinality(failed) + FaultCount <= MaxFaults
    /\ faults' = [faults EXCEPT ![t] = @ \cup failed]
    /\ taskDeps' = [taskDeps EXCEPT ![t] = analysed]
    /\ adone' = [adone EXCEPT ![t] = @ \cup {name}]
    /\ UNCHANGED <<results, sharedArr, rlock, tpc, gpos, taskSlice, taskRet,
                   slotWrites>>
    /\ TaskFrame

RunCode(t) ==
    \E failed \in SUBSET CodeCalls :
        RunAnalyzer(t, "code", failed,
                    AnalyzeCodeDependencies(taskDeps[t], repoOf(t), failed))

RunCI(t) ==
    \E failed \in SUBSET CICalls :
        RunAnalyzer(t, "ci", failed,
                    AnalyzeActionsCIDependencies(taskDeps[t], repoOf(t), failed))

RunAccess(t) ==
    \E failed \in SUBSET AccessCalls :
        RunAnalyzer(t, "access", failed,
                    AnalyzeAccessPermissions(taskDeps[t], repoOf(t), failed))

RunSecurity(t) ==
    \E failed \in SUBSET SecurityCalls :
        RunAnalyzer(t, "security", failed,
                    AnalyzeSecurityCompliance(taskDeps[t], repoOf(t), failed))

\* the fifth goroutine, filterOrgRulesetsForRepo: one iteration of its loop over
\* ba.orgCtx.Governance.OrganizationPolicies; append writes into the backing
\* array shared with the context while the slice of task t has spare capacity
\* and moves to a private array otherwise
FilterStep(t) ==
    /\ tpc[t] = "analyze"
    /\ gpos[t] < Len(ctx.Governance.OrganizationPolicies)
    /\ gpos' = [gpos EXCEPT ![t] = @ + 1]
    /\ LET policy == ctx.Governance.OrganizationPolicies[gpos[t] + 1]
           element == OrgPolicy(policy.Name, policy.Status, policy.Restrictions)
           slice == taskSlice[t]
       IN  IF ~rulesetAppliesToRepo(policy, repoOf(t))
           THEN UNCHANGED <<sharedArr, taskSlice, taskDeps>>
           ELSE IF slice.shared /\ slice.len < Len(sharedArr)
           THEN /\ sharedArr' = [sharedArr EXCEPT ![slice.len + 1] = element]
                /\ taskSlice' = [taskSlice EXCEPT ![t].len = @ + 1]
                /\ UNCHANGED taskDeps
           ELSE IF slice.shared
           THEN /\ taskDeps' = [taskDeps EXCEPT
                                  ![t].OrgGovernance.RepositoryPolicies =
                                      SubSeq(sharedArr, 1, slice.len) \o <<element>>]
                /\ taskSlice' = [taskSlice EXCEPT
                                   ![t] = [shared |-> FALSE, len |-> slice.len + 1]]
                /\ UNCHANGED sharedArr
           ELSE /\ taskDeps' = [taskDeps EXCEPT
                                  ![t].OrgGovernance.RepositoryPolicies =
                                      @ \o <<element>>]
                /\ taskSlice' = [taskSlice EXCEPT ![t].len = @ + 1]
                /\ UNCHANGED sharedArr
    /\ UNCHANGED <<results, rlock, tpc, adone, taskRet, faults, slotWrites>>
    /\ TaskFrame

\* a slip a maintainer could make: one WaitGroup for the analyzers of every
\* task, so that a task waits for the calls of its siblings too
joinReadySharedWaitGroup(t) ==
    /\ \A u \in 1..Len(repos) :
          parseRepository(repositoryOf(u)).err = Nil => adone[u] = Analyzers
    /\ gpos[t] = Len(ctx.Governance.OrganizationPolicies)

\* wg.Wait of task t (line 276) can return: its five goroutines are done
joinReady(t) ==
    /\ adone[t] = Analyzers
    /\ gpos[t] = Len(ctx.Governance.OrganizationPolicies)

\* wg.Wait of the task returns and analyzeRepositoryWithContext returns deps, nil
TaskJoin(t) ==
    /\ tpc[t] = "analyze"
    /\ joinReady(t)
    /\ taskRet' = [taskRet EXCEPT ![t] = [deps |-> <<t>>, err |-> Nil]]
    /\ tpc' = [tpc EXCEPT ![t] = "ret"]
    /\ UNCHANGED <<results, sharedArr, rlock, adone, gpos, taskDeps, taskSlice,
                   faults, slotWrites>>
    /\ TaskFrame

\* a slip a maintainer could make: the closure reading the loop variable of
\* AnalyzeRepositories instead of its own parameter
slotOfLoopVariable(index) == IF loopI < Len(repos) THEN loopI + 1 ELSE Len(repos)

\* the slot results[index] addresses, index being the parameter of the closure
slotOf(index) == index + 1

\* results[index] = BatchAnalysisResult{...} in the goroutine of task t, whose
\* index parameter is t - 1, and its deferred wg.Done
TaskWrite(t) ==
    /\ tpc[t] = "ret"
    /\ results' = [results EXCEPT
                     ![slotOf(t - 1)] = [Repository |-> repositoryOf(t),
                                         Result |-> taskRet[t].deps,
                                         Error |-> taskRet[t].err]]
    /\ slotWrites' = [slotWrites EXCEPT ![slotOf(t - 1)] = Append(@, t)]
    /\ tpc' = [tpc EXCEPT ![t] = "done"]
    /\ UNCHANGED <<sharedArr, rlock, adone, gpos, taskDeps, taskSlice, taskRet,
                   faults>>
    /\ TaskFrame

\* wg.Wait of AnalyzeRepositories returns and it returns results, nil
Return ==
    /\ pc = "wait"
    /\ \A t \in 1..Len(repos) : tpc[t] = "done"
    /\ pc' = "returned"
    /\ UNCHANGED <<repos, world, env, loopI, results, batchErr, lpc, loaderCalls, errs,
                   ctx, sharedArr, orgCtxSet, rlock, tpc, adone, gpos, taskDeps,
                   taskSlice, taskRet, faults, slotWrites>>
    /\ UNCHANGED <<vvars, xvars>>

Next ==
    \/ Enter
    \/ LoadApps
    \/ GovPolicies
    \/ GovRulesets
    \/ GovFinish
    \/ LoadInfo
    \/ LoadCampaigns
    \/ PhaseOneJoin
    \/ Dispatch
    \/ \E t \in Tasks : TaskBegin(t)
    \/ \E t \in Tasks : TaskCopy(t)
    \/ \E t \in Tasks : RunCode(t)
    \/ \E t \in Tasks : RunCI(t)
    \/ \E t \in Tasks : RunAccess(t)
    \/ \E t \in Tasks : RunSecurity(t)
    \/ \E t \in Tasks : FilterStep(t)
    \/ \E t \in Tasks : TaskJoin(t)
    \/ \E t \in Tasks : TaskWrite(t)
    \/ Return

Spec == Init /\ [][Next]_vars

\* a batch run in which calls of the per-repository analyzers may fail
InitCalls ==
    /\ repos \in BatchInputs
    /\ world \in Worlds
    /\ env = "calls"
    /\ pc = "entry"
    /\ BatchIdle
    /\ ValidateIdle
    /\ RestIdle

SpecCalls == InitCalls /\ [][Next]_vars

\* the facts a result slot points to, its RepositoryPolicies slice resolved
\* against the array that backs it
factsOf(t) ==
    [taskDeps[t] EXCEPT
        !.OrgGovernance.RepositoryPolicies =
            IF taskSlice[t].shared THEN SubSeq(sharedArr, 1, taskSlice[t].len) ELSE @]

\* the requests the batch has sent so far for one piece of org-level data: each
\* loader sends the request for its piece when it is invoked, and
\* dependencies.AnalyzeSecurityCompliance, which every task runs, sends
\* GET orgs/{owner}/security/campaigns once more
OrgDataRequests(piece) ==
    loaderCalls[piece]
    + (IF piece = "campaigns"
       THEN Cardinality({t \in Tasks : "security" \in adone[t]})
       ELSE 0)


\* ------------------------------------ batch: a call that never returns
\* the outbound calls that may hang in a run: none, or the call of one analyzer
\* of one task of the batch
StallChoices(batch) ==
    {{}} \cup {{<<t, name>>} : t \in 1..Len(batch), name \in Analyzers}

\* the organization the batches of these runs are analysed in
StallWorlds == {"restricted"}

\* a batch run in which every call that returns succeeds, and at most one call
\* never returns
InitStall ==
    /\ repos \in BatchInputs
    /\ world \in StallWorlds
    /\ env = "stall"
    /\ pc = "entry"
    /\ BatchIdle
    /\ ValidateIdle
    /\ CallsIdle
    /\ ResolverIdle
    /\ ScanIdle
    /\ TransferIdle
    /\ stalled \in StallChoices(repos)

\* the goroutine that called AnalyzeRepositories can take a step before its
\* last wg.Wait: enter, pass the join of phase 1, start a task
CallerCanStep ==
    \/ pc \in {"entry", "dispatch"}
    \/ pc = "phase1" /\ \A l \in Loaders : lpc[l] = "done"

\* the step is one of those
CallerMoved == CallerCanStep /\ (pc' # pc \/ loopI' # loopI)

\* a goroutine of phase 1 can take a step; the step is one of a loader
LoaderCanStep == \E l \in Loaders : lpc[l] \notin {"idle", "done"}

LoaderMoved == LoaderCanStep /\ lpc' # lpc

\* a goroutine of task t can take a step: the task goroutine itself, an
\* analyzer whose call returns, the ruleset filter, or the join
TaskCanStep(t) ==
    \/ tpc[t] \in {"spawned", "copy", "ret"}
    \/ /\ tpc[t] = "analyze"
       /\ \/ \E name \in Analyzers \ adone[t] : <<t, name>> \notin stalled
          \/ gpos[t] < Len(ctx.Governance.OrganizationPolicies)
          \/ joinReady(t)

\* the step is one of a goroutine of task t
TaskMoved(t) ==
    /\ TaskCanStep(t)
    /\ tpc'[t] # tpc[t] \/ adone'[t] # adone[t] \/ gpos'[t] # gpos[t]

\* the Go scheduler runs every goroutine that can take a step, and a call that
\* returns lets its goroutine go on: the caller, the loaders and each task take
\* a step when one stays possible (weak fairness, written out with the
\* conditions under which each can step, but for the last wg.Wait)
Scheduling ==
    /\ ([]<>(~CallerCanStep) \/ []<><<CallerMoved>>_vars)
    /\ WF_vars(Return)
    /\ ([]<>(~LoaderCanStep) \/ []<><<LoaderMoved>>_vars)
    /\ \A t \in Tasks : ([]<>(~TaskCanStep(t)) \/ []<><<TaskMoved(t)>>_vars)

SpecStall == InitStall /\ [][Next]_vars /\ Scheduling
\* ------------------------------- specifications of ValidateAgainstTarget
\* the batch variables while no batch runs
NoBatch ==
    /\ repos = <<>>
    /\ world = "open"
    /\ env = "loaders"
    /\ pc = "idle"
    /\ BatchIdle

\* ValidateAgainstTarget called with the facts of one repository, the
\* capabilities of one target organization and either value of assignTeams
InitValidate ==
    /\ deps \in FactsUniverse
    /\ capabilities \in CapabilitiesUniverse
    /\ assignTeams \in BOOLEAN
    /\ validation = NewValidation(capabilities)
    /\ vpc = "call"
    /\ NoBatch
    /\ RestIdle

NextValidate ==
    \/ ValidateCategories
    \/ ValidateSummary
    \/ ValidateReadiness

SpecValidate == InitValidate /\ [][NextValidate]_vars

\* calculateSummary and determineOverallReadiness applied to a MigrationValidation
\* whose results carry any of the six statuses
StatusResults ==
    {[k \in 1..Len(statuses) |-> ValidationResult(<<"i","t","e","m">>, statuses[k], "", <<>>)] :
        statuses \in SeqsUpTo(ValidationStatuses, MaxCount)}

InitReadiness ==
    /\ deps = EmptyDeps
    /\ capabilities \in CapabilitiesUniverse
    /\ assignTeams = FALSE
    /\ \E rs \in StatusResults :
          validation = [NewValidation(capabilities) EXCEPT !.SecurityCompliance = rs]
    /\ vpc = "summary"
    /\ NoBatch
    /\ RestIdle

NextReadiness ==
    \/ ValidateSummary
    \/ ValidateReadiness

SpecReadiness == InitReadiness /\ [][NextReadiness]_vars


\* ------------------------- ValidateAgainstTarget called more than once
\* ValidateAgainstTarget returns (line 29) and the caller, which keeps what it
\* passed and what it got, calls it again with the same facts and flag and the
\* capabilities of any target organization
ValidateAgain ==
    /\ vpc = "done"
    /\ Len(returned) + 1 < MaxCalls
    /\ returned' = Append(returned,
                          [deps |-> deps, capabilities |-> capabilities,
                           assignTeams |-> assignTeams, validation |-> validation])
    /\ capabilities' \in CapabilitiesUniverse
    /\ validation' = NewValidation(capabilities')
    /\ vpc' = "call"
    /\ UNCHANGED <<deps, assignTeams>>
    /\ UNCHANGED <<bvars, rvars, svars, tvars, lvars>>

NextValidateTwice ==
    \/ ValidateCategories
    \/ ValidateSummary
    \/ ValidateReadiness
    \/ ValidateAgain

SpecValidateTwice == InitValidate /\ [][NextValidateTwice]_vars

\* ---------------- ValidateAgainstTarget called with either value of the flag
\* ValidateAgainstTarget returns (line 29) and the caller, which keeps what it
\* passed and what it got, calls it again with the same facts and capabilities
\* and the other value of assignTeams
ValidateOtherFlag ==
    /\ vpc = "done"
    /\ returned = <<>>
    /\ returned' = <<[deps |-> deps, capabilities |-> capabilities,
                      assignTeams |-> assignTeams, validation |-> validation]>>
    /\ assignTeams' = ~assignTeams
    /\ validation' = NewValidation(capabilities)
    /\ vpc' = "call"
    /\ UNCHANGED <<deps, capabilities>>
    /\ UNCHANGED <<bvars, rvars, svars, tvars, lvars>>

NextValidateFlag ==
    \/ ValidateCategories
    \/ ValidateSummary
    \/ ValidateReadiness
    \/ ValidateOtherFlag

SpecValidateFlag == InitValidate /\ [][NextValidateFlag]_vars

\* -------------------------- rulesetAppliesToRepo on a ruleset's conditions
\* target == repo || strings.Contains(target, "*")
matchesName(entry, repo) == entry = repo \/ Contains(entry, <<"*">>)

\* the loop over Exclude: false at the first entry that matches
RECURSIVE excludeLoop(_, _)
excludeLoop(excludes, repo) ==
    IF excludes = <<>> THEN TRUE
    ELSE IF matchesName(Head(excludes), repo) THEN FALSE
    ELSE excludeLoop(Tail(excludes), repo)

\* rulesetAppliesToRepo with every matching include taken as final
RECURSIVE includeLoopIncludeWins(_, _, _)
includeLoopIncludeWins(includes, excludes, repo) ==
    IF includes = <<>> THEN FALSE
    ELSE IF matchesName(Head(includes), repo) THEN TRUE
    ELSE includeLoopIncludeWins(Tail(includes), excludes, repo)

\* the loop over Include: the first entry that matches hands over to the
\* excludes, and no entry matching is false
RECURSIVE includeLoop(_, _, _)
includeLoop(includes, excludes, repo) ==
    IF includes = <<>> THEN FALSE
    ELSE IF matchesName(Head(includes), repo) THEN excludeLoop(excludes, repo)
    ELSE includeLoop(Tail(includes), excludes, repo)

\* rulesetAppliesToRepo(ruleset, repo) of the single-repository analyser
rulesetAppliesToRepoConditions(ruleset, repo) ==
    IF Len(ruleset.RepositoryName.Include) > 0
    THEN includeLoop(ruleset.RepositoryName.Include, ruleset.RepositoryName.Exclude, repo)
    ELSE excludeLoop(ruleset.RepositoryName.Exclude, repo)

\* the repository names and patterns conditions are made of
ConditionNames == {<<"a">>, <<"b">>, <<"a","*">>}

ConditionsUniverse ==
    {[RepositoryName |-> [Include |-> inc, Exclude |-> exc]] :
        inc \in SeqsUpTo(ConditionNames, MaxNames),
        exc \in SeqsUpTo(ConditionNames, MaxNames)}

InitResolver ==
    /\ conditions \in ConditionsUniverse
    /\ resource \in {<<"a">>, <<"b">>, <<"c">>}
    /\ applies = FALSE
    /\ rpc = "call"
    /\ stored = <<>>
    /\ appliesStored = FALSE
    /\ ValidateIdle
    /\ NoBatch
    /\ CallsIdle
    /\ ScanIdle
    /\ TransferIdle
    /\ StallIdle

\* the call and its return value
ResolveApplies ==
    /\ rpc = "call"
    /\ applies' = rulesetAppliesToRepoConditions(conditions, resource)
    /\ rpc' = "done"
    /\ UNCHANGED <<conditions, resource, stored, appliesStored>>
    /\ UNCHANGED <<vvars, bvars, callvars, svars, tvars, lvars>>

NextResolver == ResolveApplies

SpecResolver == InitResolver /\ [][NextResolver]_vars

\* ------------------- the two forms of the resolver on one ruleset's conditions
\* the conditions a ruleset may carry: include, exclude and the protected flag
SerializedUniverse ==
    {[RepositoryName |-> [Include |-> inc, Exclude |-> exc, Protected |-> protected]] :
        inc \in SeqsUpTo(ConditionNames, MaxNames),
        exc \in SeqsUpTo(ConditionNames, MaxNames),
        protected \in BOOLEAN}

\* the element of GET orgs/{owner}/rulesets that carries the conditions
rulesetOf(cond) ==
    Ruleset(<<"r","u","l","e","s","e","t">>, <<"a","c","t","i","v","e">>, <<"r","e","p","o","s","i","t","o","r","y">>, cond.RepositoryName.Include,
            cond.RepositoryName.Exclude, cond.RepositoryName.Protected,
            <<<<"d","e","l","e","t","i","o","n">>>>)

InitSerialized ==
    /\ conditions \in SerializedUniverse
    /\ resource \in {<<"a">>, <<"b">>, <<"c">>}
    /\ applies = FALSE
    /\ rpc = "scan"
    /\ stored = <<>>
    /\ appliesStored = FALSE
    /\ ValidateIdle
    /\ NoBatch
    /\ CallsIdle
    /\ ScanIdle
    /\ TransferIdle
    /\ StallIdle

\* what the steps on the resolver variables leave alone
ResolverFrame == UNCHANGED <<vvars, bvars, callvars, svars, tvars, lvars>>

\* analyzeOrgRepositoryRulesets: the scan phase stores the ruleset as a Policy
\* whose restriction strings spell out its conditions
StoreRuleset ==
    /\ rpc = "scan"
    /\ stored' = orgRulesetPolicies(<<rulesetOf(conditions)>>)
    /\ rpc' = "filter"
    /\ UNCHANGED <<conditions, resource, applies, appliesStored>>
    /\ ResolverFrame

\* filterOrgRulesetsForRepo: the filter phase asks BatchAnalyzer.rulesetAppliesToRepo
\* about the stored Policy
ResolveStored ==
    /\ rpc = "filter"
    /\ appliesStored' = rulesetAppliesToRepo(stored[1], resource)
    /\ rpc' = "structured"
    /\ UNCHANGED <<conditions, resource, applies, stored>>
    /\ ResolverFrame

\* analyzeOrgLevelRepositoryRulesets: the single-repository analyser asks
\* rulesetAppliesToRepo about the conditions themselves
ResolveStructured ==
    /\ rpc = "structured"
    /\ applies' = rulesetAppliesToRepoConditions(conditions, resource)
    /\ rpc' = "done"
    /\ UNCHANGED <<conditions, resource, stored, appliesStored>>
    /\ ResolverFrame

NextSerialized ==
    \/ StoreRuleset
    \/ ResolveStored
    \/ ResolveStructured

SpecSerialized == InitSerialized /\ [][NextSerialized]_vars

\* ------------------------------------------------ ScanTargetOrganization
\* fmt's %g of a float64 that holds a natural number below 10^21
RECURSIVE FormatG(_)
FormatG(n) ==
    LET digit == <<"0","1","2","3","4","5","6","7","8","9">>[(n % 10) + 1]
    IN  IF n < 10 THEN <<digit>> ELSE FormatG(n \div 10) \o <<digit>>

\* strings.Title of a single lower-case word
Title(s) ==
    IF s = <<>> THEN s
    ELSE LET c == s[1]
         IN  (IF \E k \in 1..Len(LowerChars) : LowerChars[k] = c
              THEN <<UpperChars[CHOOSE k \in 1..Len(LowerChars) : LowerChars[k] = c]>>
              ELSE <<c>>) \o Tail(s)

\* one entry of a ruleset's rules: its type and the parameters it carries
Rule(type, parameters) == [Type |-> type, Parameters |-> parameters]

\* what the API of a target organization answers when a request succeeds
\* (a file that is absent makes its request fail)
TargetApiOf ==
    [bare |->
        [installations |-> <<>>, teams |-> <<>>, policies |-> <<>>,
         repositoryPolicies |-> <<>>,
         rulesets |->
            <<[ID |-> 1, Name |-> <<"P","o","l","i","c","y">>, Enforcement |-> <<"e","v","a","l","u","a","t","e">>,
               Target |-> <<"r","e","p","o","s","i","t","o","r","y">>, Rules |-> <<>>,
               Detail |-> [Rules |-> <<>>, RefInclude |-> <<>>]]>>,
         securityFile |-> FALSE, dependabotFile |-> FALSE,
         orgInfo |-> [MembersCanCreateRepos |-> TRUE,
                      MembersCanForkPrivateRepos |-> TRUE,
                      TwoFactorRequirementEnabled |-> FALSE,
                      WebCommitSignoffRequired |-> FALSE,
                      DefaultRepositoryPermission |-> <<"r","e","a","d">>],
         secrets |-> <<>>, variables |-> <<>>, runners |-> <<>>],
     full |->
        [installations |-> <<[AppName |-> <<"D","e","p","e","n","d","a","b","o","t">>, AppSlug |-> <<"d","e","p","e","n","d","a","b","o","t">>],
                             [AppName |-> <<>>, AppSlug |-> <<"c","u","s","t","o","m","-","a","p","p">>]>>,
         teams |-> <<[Name |-> <<"F","r","o","n","t","e","n","d">>, Slug |-> <<"f","r","o","n","t","e","n","d">>]>>,
         policies |->
            <<[Name |-> <<"N","o"," ","f","o","r","k","s">>, Description |-> <<>>, Status |-> <<"e","n","a","b","l","e","d">>,
               PolicyType |-> <<"r","e","p","o">>, Scope |-> <<"a","l","l">>, Rules |-> <<>>],
              [Name |-> <<"N","a","m","i","n","g">>, Description |-> <<"n","a","m","e","s">>, Status |-> <<"e","n","a","b","l","e","d">>,
               PolicyType |-> <<"r","e","p","o">>, Scope |-> <<"a","l","l">>,
               Rules |-> <<[Name |-> <<"p","r","e","f","i","x">>]>>]>>,
         repositoryPolicies |->
            <<[Name |-> <<"V","i","s","i","b","i","l","i","t","y">>, State |-> <<"a","c","t","i","v","e">>, Body |-> <<"p","r","i","v","a","t","e">>]>>,
         rulesets |->
            <<[ID |-> 1, Name |-> <<"M","a","i","n"," ","P","O","L","I","C","Y">>, Enforcement |-> <<"a","c","t","i","v","e">>,
               Target |-> <<"r","e","p","o","s","i","t","o","r","y">>,
               Rules |-> <<Rule(<<"p","u","l","l","_","r","e","q","u","e","s","t">>, [x \in {} |-> 0]),
                           Rule(<<"d","e","l","e","t","i","o","n">>, [x \in {} |-> 0])>>,
               Detail |->
                  [Rules |->
                      <<Rule(<<"p","u","l","l","_","r","e","q","u","e","s","t">>,
                             [required_approving_review_count |-> 12,
                              dismiss_stale_reviews_on_push |-> FALSE,
                              require_code_owner_review |-> TRUE]),
                        Rule(<<"d","e","l","e","t","i","o","n">>, [x \in {} |-> 0]),
                        Rule(<<"r","e","q","u","i","r","e","d","_","s","t","a","t","u","s","_","c","h","e","c","k","s">>,
                             [required_status_checks |->
                                 <<[context |-> <<"b","u","i","l","d">>], [x \in {} |-> 0]>>]),
                        Rule(<<"u","p","d","a","t","e">>, [update_allows_fetch_and_merge |-> FALSE]),
                        Rule(<<"t","a","g","_","n","a","m","e","_","p","a","t","t","e","r","n">>, [x \in {} |-> 0])>>,
                   RefInclude |-> <<<<"m","a","i","n">>, <<"r","e","l","e","a","s","e">>>>]],
              [ID |-> 2, Name |-> <<"p","o","l","i","c","y"," ","f","o","r"," ","b","r","a","n","c","h","e","s">>, Enforcement |-> <<"a","c","t","i","v","e">>,
               Target |-> <<"b","r","a","n","c","h">>, Rules |-> <<>>,
               Detail |-> [Rules |-> <<>>, RefInclude |-> <<>>]],
              [ID |-> 3, Name |-> <<"p","r","o","t","e","c","t">>, Enforcement |-> <<"a","c","t","i","v","e">>,
               Target |-> <<"r","e","p","o","s","i","t","o","r","y">>, Rules |-> <<>>,
               Detail |-> [Rules |-> <<>>, RefInclude |-> <<>>]]>>,
         securityFile |-> TRUE, dependabotFile |-> TRUE,
         orgInfo |-> [MembersCanCreateRepos |-> FALSE,
                      MembersCanForkPrivateRepos |-> TRUE,
                      TwoFactorRequirementEnabled |-> TRUE,
                      WebCommitSignoffRequired |-> FALSE,
                      DefaultRepositoryPermission |-> <<"r","e","a","d">>],
         secrets |-> <<[Name |-> <<"A","P","I","_","T","O","K","E","N">>]>>,
         variables |-> <<[Name |-> <<"R","E","G","I","O","N">>]>>,
         runners |-> <<[Name |-> <<"g","p","u","-","r","u","n","n","e","r">>, Status |-> <<"O","n","l","i","n","e">>],
                       [Name |-> <<"o","l","d">>, Status |-> <<"o","f","f","l","i","n","e">>]>>]]

TargetApis == DOMAIN TargetApiOf

\* an outbound request of the scan: its name and, for the detail of a ruleset,
\* the ruleset's ID
Request(name, id) == <<name, id>>

\* the requests of scanRepositoryPolicies against one organization
PolicyRequests(api) ==
    {Request("policies", 0), Request("repositoryPolicies", 0), Request("rulesets", 0),
     Request("securityFile", 0), Request("dependabotFile", 0)}
    \cup {Request("rulesetDetail", api.rulesets[k].ID) : k \in 1..Len(api.rulesets)}

\* the requests that fail whatever else happens: those for a file that is absent
AbsentRequests(api) ==
    (IF api.securityFile THEN {} ELSE {Request("securityFile", 0)})
    \cup (IF api.dependabotFile THEN {} ELSE {Request("dependabotFile", 0)})

\* the zero value of types.OrgMemberPrivileges
ZeroPrivileges ==
    [CanCreateRepos |-> FALSE, CanForkPrivateRepos |-> FALSE,
     TwoFactorRequired |-> FALSE, WebCommitSignoffRequired |-> FALSE,
     DefaultPermission |-> <<>>, RestrictionsActive |-> <<>>]

\* &types.TargetOrgCapabilities{Organization: targetOrg}
NewCapabilities(org) ==
    [Organization |-> org, Apps |-> <<>>, Teams |-> <<>>,
     RepositoryPolicies |-> <<>>, MemberPrivileges |-> ZeroPrivileges,
     Rulesets |-> <<>>, Secrets |-> <<>>, Variables |-> <<>>, Runners |-> <<>>]

\* scanAvailableApps on a successful request: AppName, or AppSlug when empty
scanAvailableApps(api) ==
    [k \in 1..Len(api.installations) |->
        IF api.installations[k].AppName = <<>>
        THEN api.installations[k].AppSlug
        ELSE api.installations[k].AppName]

scanAvailableTeams(api) == [k \in 1..Len(api.teams) |-> api.teams[k].Name]

scanAvailableSecrets(api) == [k \in 1..Len(api.secrets) |-> api.secrets[k].Name]

scanAvailableVariables(api) == [k \in 1..Len(api.variables) |-> api.variables[k].Name]

\* scanAvailableRunners on a successful request: the runners that are online
scanAvailableRunners(api) ==
    LET online(r) == ToLower(r.Status) = <<"o","n","l","i","n","e">>
        kept == SelectSeq(api.runners, online)
    IN  [k \in 1..Len(kept) |-> kept[k].Name]

\* scanMemberPrivileges on a successful request
scanMemberPrivileges(api) ==
    LET info == api.orgInfo IN
    [CanCreateRepos |-> info.MembersCanCreateRepos,
     CanForkPrivateRepos |-> info.MembersCanForkPrivateRepos,
     TwoFactorRequired |-> info.TwoFactorRequirementEnabled,
     WebCommitSignoffRequired |-> info.WebCommitSignoffRequired,
     DefaultPermission |-> info.DefaultRepositoryPermission,
     RestrictionsActive |->
        (IF ~info.MembersCanCreateRepos
         THEN <<<<"R","e","p","o","s","i","t","o","r","y"," ","c","r","e","a","t","i","o","n"," ","r","e","s","t","r","i","c","t","e","d">>>> ELSE <<>>)
        \o (IF ~info.MembersCanForkPrivateRepos
            THEN <<<<"P","r","i","v","a","t","e"," ","r","e","p","o","s","i","t","o","r","y"," ","f","o","r","k","i","n","g"," ","r","e","s","t","r","i","c","t","e","d">>>> ELSE <<>>)
        \o (IF info.TwoFactorRequirementEnabled
            THEN <<<<"T","w","o","-","f","a","c","t","o","r"," ","a","u","t","h","e","n","t","i","c","a","t","i","o","n"," ","r","e","q","u","i","r","e","d">>>> ELSE <<>>)
        \o (IF info.WebCommitSignoffRequired
            THEN <<<<"W","e","b"," ","c","o","m","m","i","t"," ","s","i","g","n","o","f","f"," ","r","e","q","u","i","r","e","d">>>> ELSE <<>>)]

\* the policies of orgs/{org}/policies (lines 148-168)
endpointPolicies(api) ==
    [k \in 1..Len(api.policies) |->
        LET policy == api.policies[k]
            described ==
                (IF policy.Description # <<>> THEN <<policy.Description>> ELSE <<>>)
                \o [j \in 1..Len(policy.Rules) |-> <<"R","u","l","e",":"," ">> \o policy.Rules[j].Name]
        IN  OrgPolicy(policy.Name, policy.Status,
                IF Len(described) = 0
                THEN <<<<"T","y","p","e",":"," ">> \o policy.PolicyType \o <<","," ","S","c","o","p","e",":"," ">> \o policy.Scope>>
                ELSE described)]

\* the policies of orgs/{org}/repository-policies (lines 183-197)
alternativePolicies(api) ==
    [k \in 1..Len(api.repositoryPolicies) |->
        LET policy == api.repositoryPolicies[k]
        IN  OrgPolicy(policy.Name, policy.State,
                      IF policy.Body # <<>> THEN <<policy.Body>> ELSE <<>>)]

\* the switch over rule.Type of a detailed ruleset (lines 238-277)
ruleRestrictions(rule) ==
    LET has(key) == key \in DOMAIN rule.Parameters
        flag(key) == has(key) /\ rule.Parameters[key]
    IN  IF rule.Type = <<"p","u","l","l","_","r","e","q","u","e","s","t">>
        THEN (IF has("required_approving_review_count")
              THEN <<<<"R","e","q","u","i","r","e","s"," ">>
                        \o FormatG(rule.Parameters["required_approving_review_count"])
                        \o <<" ","a","p","p","r","o","v","i","n","g"," ","r","e","v","i","e","w","s">>>>
              ELSE <<>>)
             \o (IF flag("dismiss_stale_reviews_on_push")
                 THEN <<<<"D","i","s","m","i","s","s"," ","s","t","a","l","e"," ","r","e","v","i","e","w","s"," ","o","n"," ","p","u","s","h">>>> ELSE <<>>)
             \o (IF flag("require_code_owner_review")
                 THEN <<<<"R","e","q","u","i","r","e"," ","c","o","d","e"," ","o","w","n","e","r"," ","r","e","v","i","e","w">>>> ELSE <<>>)
        ELSE IF rule.Type = <<"r","e","q","u","i","r","e","d","_","s","t","a","t","u","s","_","c","h","e","c","k","s">>
        THEN IF has("required_status_checks")
             THEN LET checks == rule.Parameters["required_status_checks"]
                      named(check) == "context" \in DOMAIN check
                      kept == SelectSeq(checks, named)
                  IN  [j \in 1..Len(kept) |->
                          <<"R","e","q","u","i","r","e","d"," ","s","t","a","t","u","s"," ","c","h","e","c","k",":"," ">> \o kept[j]["context"]]
             ELSE <<>>
        ELSE IF rule.Type \in {<<"c","r","e","a","t","i","o","n">>, <<"d","e","l","e","t","i","o","n">>}
        THEN <<Title(rule.Type) \o <<" ","r","e","s","t","r","i","c","t","e","d">>>>
        ELSE IF rule.Type = <<"u","p","d","a","t","e">>
        THEN IF has("update_allows_fetch_and_merge")
                /\ ~rule.Parameters["update_allows_fetch_and_merge"]
             THEN <<<<"F","o","r","c","e"," ","p","u","s","h"," ","d","i","s","a","b","l","e","d">>>> ELSE <<>>
        ELSE IF rule.Type = <<"r","e","q","u","i","r","e","d","_","l","i","n","e","a","r","_","h","i","s","t","o","r","y">>
        THEN <<<<"L","i","n","e","a","r"," ","h","i","s","t","o","r","y"," ","r","e","q","u","i","r","e","d">>>>
        ELSE IF rule.Type = <<"f","o","r","c","e","_","p","u","s","h">> THEN <<<<"F","o","r","c","e"," ","p","u","s","h"," ","d","i","s","a","b","l","e","d">>>>
        ELSE IF rule.Type = <<"r","e","q","u","i","r","e","d","_","s","i","g","n","a","t","u","r","e","s">> THEN <<<<"S","i","g","n","e","d"," ","c","o","m","m","i","t","s"," ","r","e","q","u","i","r","e","d">>>>
        ELSE IF rule.Type = <<"b","r","a","n","c","h","_","n","a","m","e","_","p","a","t","t","e","r","n">>
        THEN <<<<"B","r","a","n","c","h"," ","n","a","m","i","n","g"," ","p","a","t","t","e","r","n"," ","e","n","f","o","r","c","e","d">>>>
        ELSE IF rule.Type = <<"c","o","m","m","i","t","_","m","e","s","s","a","g","e","_","p","a","t","t","e","r","n">>
        THEN <<<<"C","o","m","m","i","t"," ","m","e","s","s","a","g","e"," ","p","a","t","t","e","r","n"," ","e","n","f","o","r","c","e","d">>>>
        ELSE IF rule.Type = <<"c","o","m","m","i","t","_","a","u","t","h","o","r","_","e","m","a","i","l","_","p","a","t","t","e","r","n">>
        THEN <<<<"C","o","m","m","i","t"," ","a","u","t","h","o","r"," ","e","m","a","i","l"," ","p","a","t","t","e","r","n"," ","e","n","f","o","r","c","e","d">>>>
        ELSE IF rule.Type = <<"c","o","m","m","i","t","t","e","r","_","e","m","a","i","l","_","p","a","t","t","e","r","n">>
        THEN <<<<"C","o","m","m","i","t","t","e","r"," ","e","m","a","i","l"," ","p","a","t","t","e","r","n"," ","e","n","f","o","r","c","e","d">>>>
        ELSE <<<<"R","u","l","e",":"," ">> \o rule.Type>>

\* the policy made of one ruleset (lines 216-296): from its detail, or from the
\* rule types of the list when the detail request failed
rulesetPolicy(ruleset, failed) ==
    LET found ==
            IF Request("rulesetDetail", ruleset.ID) \notin failed
            THEN Flatten([j \in 1..Len(ruleset.Detail.Rules) |->
                             ruleRestrictions(ruleset.Detail.Rules[j])])
                 \o (IF Len(ruleset.Detail.RefInclude) > 0
                     THEN <<<<"A","p","p","l","i","e","s"," ","t","o"," ","b","r","a","n","c","h","e","s",":"," ">>
                               \o Join(ruleset.Detail.RefInclude, <<","," ">>)>>
                     ELSE <<>>)
            ELSE [j \in 1..Len(ruleset.Rules) |-> <<"R","u","l","e",":"," ">> \o ruleset.Rules[j].Type]
    IN  OrgPolicy(ruleset.Name, ruleset.Enforcement,
                  IF Len(found) = 0
                  THEN <<<<"E","n","f","o","r","c","e","m","e","n","t",":"," ">> \o ruleset.Enforcement>>
                  ELSE found)

\* the rulesets that count as policies (line 214)
policyRulesets(api) ==
    LET marked(ruleset) ==
            /\ ruleset.Target = <<"r","e","p","o","s","i","t","o","r","y">>
            /\ Contains(ToLower(ruleset.Name), <<"p","o","l","i","c","y">>)
    IN  SelectSeq(api.rulesets, marked)

\* the policies of orgs/{org}/rulesets (lines 211-298)
rulesetPolicies(api, failed) ==
    [k \in 1..Len(policyRulesets(api)) |-> rulesetPolicy(policyRulesets(api)[k], failed)]

\* lines 301-310
securityFilePolicy ==
    OrgPolicy(<<"O","r","g","a","n","i","z","a","t","i","o","n"," ","S","e","c","u","r","i","t","y"," ","P","o","l","i","c","y">>, <<"a","c","t","i","v","e">>,
              <<<<"S","E","C","U","R","I","T","Y",".","m","d"," ","f","i","l","e"," ","p","r","e","s","e","n","t">>>>)

\* lines 313-321
dependabotFilePolicy ==
    OrgPolicy(<<"D","e","p","e","n","d","a","b","o","t"," ","C","o","n","f","i","g","u","r","a","t","i","o","n"," ","P","o","l","i","c","y">>, <<"a","c","t","i","v","e">>,
              <<<<"A","u","t","o","m","a","t","e","d"," ","d","e","p","e","n","d","e","n","c","y"," ","u","p","d","a","t","e","s"," ","c","o","n","f","i","g","u","r","e","d">>>>)

\* scanRepositoryPolicies giving up at the first request that fails
scanRepositoryPoliciesFailFast(api, failed) ==
    IF \E name \in {"policies", "repositoryPolicies", "rulesets", "securityFile",
                    "dependabotFile"} : Request(name, 0) \in failed
    THEN <<>>
    ELSE endpointPolicies(api) \o alternativePolicies(api) \o rulesetPolicies(api, failed)
         \o <<securityFilePolicy, dependabotFilePolicy>>

\* scanRepositoryPolicies: the policies it stores when the requests of failed
\* fail; each request adds its policies only when it succeeds
scanRepositoryPolicies(api, failed) ==
    (IF Request("policies", 0) \in failed THEN <<>> ELSE endpointPolicies(api))
    \o (IF Request("repositoryPolicies", 0) \in failed
        THEN <<>> ELSE alternativePolicies(api))
    \o (IF Request("rulesets", 0) \in failed THEN <<>> ELSE rulesetPolicies(api, failed))
    \o (IF Request("securityFile", 0) \in failed THEN <<>> ELSE <<securityFilePolicy>>)
    \o (IF Request("dependabotFile", 0) \in failed THEN <<>> ELSE <<dependabotFilePolicy>>)

\* the requests for the detail of a ruleset that scanRepositoryPolicies makes
DetailRequests(api) ==
    {Request("rulesetDetail", policyRulesets(api)[k].ID) :
        k \in 1..Len(policyRulesets(api))}

\* what no step of a scan changes
ScanFrame ==
    /\ UNCHANGED <<targetApi, scanErr>>
    /\ UNCHANGED <<vvars, bvars, callvars, rvars, tvars, lvars>>

\* lines 22-27 and scanAvailableApps: one request; when it fails the sub-scan
\* returns before it appends anything and ScanTargetOrganization goes on
ScanApps ==
    /\ spc = "apps"
    /\ \E fail \in BOOLEAN :
          /\ scanned' = IF fail THEN scanned
                         ELSE [scanned EXCEPT
                                  !.Apps = @ \o scanAvailableApps(TargetApiOf[targetApi])]
          /\ scanFailed' = IF fail THEN scanFailed \cup {Request("apps", 0)}
                            ELSE scanFailed
    /\ spc' = "teams"
    /\ ScanFrame

\* lines 29-34 and scanAvailableTeams
ScanTeams ==
    /\ spc = "teams"
    /\ \E fail \in BOOLEAN :
          /\ scanned' = IF fail THEN scanned
                         ELSE [scanned EXCEPT
                                  !.Teams = @ \o scanAvailableTeams(TargetApiOf[targetApi])]
          /\ scanFailed' = IF fail THEN scanFailed \cup {Request("teams", 0)}
                            ELSE scanFailed
    /\ spc' = "policies"
    /\ ScanFrame

\* lines 36-41 and scanRepositoryPolicies: any of its requests may fail, a
\* detail request is made for each ruleset that counts as a policy when the list
\* request succeeded, and the policies collected are stored
ScanPolicies ==
    /\ spc = "policies"
    /\ \E injected \in SUBSET PolicyRequests(TargetApiOf[targetApi]) :
          LET api == TargetApiOf[targetApi]
              failed == injected \cup AbsentRequests(api)
          IN  /\ \A request \in failed :
                    request[1] = "rulesetDetail"
                        => /\ Request("rulesets", 0) \notin failed
                           /\ request \in DetailRequests(api)
              /\ scanned' = [scanned EXCEPT
                                !.RepositoryPolicies = scanRepositoryPolicies(api, failed)]
              /\ scanFailed' = scanFailed \cup failed
    /\ spc' = "privileges"
    /\ ScanFrame

\* lines 43-48 and scanMemberPrivileges
ScanPrivileges ==
    /\ spc = "privileges"
    /\ \E fail \in BOOLEAN :
          /\ scanned' = IF fail THEN scanned
                         ELSE [scanned EXCEPT
                                  !.MemberPrivileges =
                                      scanMemberPrivileges(TargetApiOf[targetApi])]
          /\ scanFailed' = IF fail THEN scanFailed \cup {Request("privileges", 0)}
                            ELSE scanFailed
    /\ spc' = "secrets"
    /\ ScanFrame

\* lines 50-55 and scanAvailableSecrets
ScanSecrets ==
    /\ spc = "secrets"
    /\ \E fail \in BOOLEAN :
          /\ scanned' = IF fail THEN scanned
                         ELSE [scanned EXCEPT
                                  !.Secrets = @ \o scanAvailableSecrets(TargetApiOf[targetApi])]
          /\ scanFailed' = IF fail THEN scanFailed \cup {Request("secrets", 0)}
                            ELSE scanFailed
    /\ spc' = "variables"
    /\ ScanFrame

\* lines 57-62 and scanAvailableVariables
ScanVariables ==
    /\ spc = "variables"
    /\ \E fail \in BOOLEAN :
          /\ scanned' = IF fail THEN scanned
                         ELSE [scanned EXCEPT
                                  !.Variables = @ \o scanAvailableVariables(TargetApiOf[targetApi])]
          /\ scanFailed' = IF fail THEN scanFailed \cup {Request("variables", 0)}
                            ELSE scanFailed
    /\ spc' = "runners"
    /\ ScanFrame

\* lines 64-69 and scanAvailableRunners
ScanRunners ==
    /\ spc = "runners"
    /\ \E fail \in BOOLEAN :
          /\ scanned' = IF fail THEN scanned
                         ELSE [scanned EXCEPT
                                  !.Runners = @ \o scanAvailableRunners(TargetApiOf[targetApi])]
          /\ scanFailed' = IF fail THEN scanFailed \cup {Request("runners", 0)}
                            ELSE scanFailed
    /\ spc' = "return"
    /\ ScanFrame

\* line 71: return capabilities, nil
ScanReturn ==
    /\ spc = "return"
    /\ scanErr' = Nil
    /\ spc' = "done"
    /\ UNCHANGED <<targetApi, scanned, scanFailed>>
    /\ UNCHANGED <<vvars, bvars, callvars, rvars, tvars, lvars>>

\* ScanTargetOrganization called on one target organization; it has returned
\* nothing yet
InitScan ==
    /\ targetApi \in TargetApis
    /\ scanned = NewCapabilities(<<"t","a","r","g","e","t">>)
    /\ scanFailed = {}
    /\ scanErr = "unreturned"
    /\ spc = "apps"
    /\ ValidateIdle
    /\ NoBatch
    /\ CallsIdle
    /\ ResolverIdle
    /\ TransferIdle
    /\ StallIdle

NextScan ==
    \/ ScanApps
    \/ ScanTeams
    \/ ScanPolicies
    \/ ScanPrivileges
    \/ ScanSecrets
    \/ ScanVariables
    \/ ScanRunners
    \/ ScanReturn

SpecScan == InitScan /\ [][NextScan]_vars
\* ------------------------------------------------- the transfer command
\* the arguments the command is run with: repositories of two source
\* organizations and one argument that is not of the form owner/repo
TransferUniverse == {<<"a","c","m","e","/","a">>, <<"a","c","m","e","/","b">>, <<"b","e","t","a","/","c">>, <<"a","c","m","e">>}

\* the teams the target organization may hold before the command runs
TargetTeamsUniverse == {<<>>, <<<<"t","e","a","m","-","a">>>>}

\* the four boolean flags of the command
FlagsUniverse ==
    [dryRun : BOOLEAN, enforce : BOOLEAN, assign : BOOLEAN, createTeams : BOOLEAN]

\* getRepositoryTeams: the teams of the source repository with their permission,
\* as GET repos/{owner}/{repo}/teams lists them
getRepositoryTeams(repoName) ==
    <<[Name |-> <<"t","e","a","m","-">> \o repoName, Permission |-> <<"w","r","i","t","e">>]>>

\* the slug teamExistsInTargetOrg asks for
teamSlug(teamName) ==
    ToLower([k \in 1..Len(teamName) |->
                IF teamName[k] = " " THEN "-" ELSE teamName[k]])

\* teamExistsInTargetOrg against the teams the target organization holds
teamExistsInTargetOrg(orgTeams, teamName) ==
    \E k \in 1..Len(orgTeams) : teamSlug(orgTeams[k]) = teamSlug(teamName)

\* a changing request sent to the API: what it changes, the repository and the
\* team it is about (empty when it is about none), whether it succeeded
Issued(kind, repository, teamName, ok) ==
    [kind |-> kind, repository |-> repository, team |-> teamName, ok |-> ok]

\* createTeamsInTargetOrg: the loop over the source teams; failedCreates holds
\* the names whose creation request fails. It yields the teams of the target
\* organization and the requests issued.
RECURSIVE createTeamsInTargetOrg(_, _, _)
createTeamsInTargetOrg(orgTeams, sourceTeamPermissions, failedCreates) ==
    IF sourceTeamPermissions = <<>> THEN [teams |-> orgTeams, requests |-> <<>>]
    ELSE LET team == Head(sourceTeamPermissions)
             exists == teamExistsInTargetOrg(orgTeams, team.Name)
             created == ~exists /\ team.Name \notin failedCreates
             rest == createTeamsInTargetOrg(
                         IF created THEN Append(orgTeams, team.Name) ELSE orgTeams,
                         Tail(sourceTeamPermissions), failedCreates)
         IN  [teams |-> rest.teams,
              requests |-> (IF exists THEN <<>>
                            ELSE <<Issued("createTeam", <<>>, team.Name, created)>>)
                           \o rest.requests]

\* validation.ScanTargetOrganization on a target organization that holds teams
\* and nothing else; teamsFailed says that its teams request failed
ScanTargetOrganization(orgTeams, teamsFailed) ==
    Capabilities(IF teamsFailed THEN <<>> ELSE orgTeams, <<>>, <<>>, <<>>, <<>>, <<>>,
                 MemberPrivileges(FALSE, FALSE, FALSE, FALSE))

\* analyzer.AnalyzeOrganizationalDependencies: the analyzers in the order they
\* are called, each error dropped; the source organization has no installed
\* apps and no governance policies
AnalyzeOrganizationalDependencies(repoName) ==
    AnalyzeSecurityCompliance(
        AnalyzeAccessPermissions(
            AnalyzeActionsCIDependencies(
                AnalyzeCodeDependencies(EmptyDeps, repoName, {}),
                repoName, {}),
            repoName, {}),
        repoName, {})

\* validation.ValidateAgainstTarget as one function
ValidateAgainstTarget(facts, caps, assignTeamsFlag) ==
    LET categories ==
            [NewValidation(caps) EXCEPT
                !.AppsIntegrations = validateAppsIntegrations(facts.AppsIntegrations, caps),
                !.AccessPermissions =
                    validateAccessPermissions(facts.AccessPermissions, caps,
                                              assignTeamsFlag),
                !.CIDependencies = validateCIDependencies(facts.ActionsCIDependencies, caps),
                !.Governance = validateGovernance(facts.OrgGovernance, caps),
                !.CodeDependencies = validateCodeDependencies(facts.CodeDependencies, caps),
                !.SecurityCompliance =
                    validateSecurityCompliance(facts.SecurityCompliance, caps)]
        summed == [categories EXCEPT !.Summary = calculateSummary(categories)]
    IN  [summed EXCEPT !.OverallReadiness = determineOverallReadiness(summed.Summary)]

\* transferResult
TransferResult(owner, repoName, success, blockerCount, mode, error, teams, details) ==
    [Repository |-> owner \o <<"/">> \o repoName, Owner |-> owner, RepoName |-> repoName,
     Success |-> success, BlockerCount |-> blockerCount, Mode |-> mode,
     Error |-> error, Teams |-> teams, ValidationDetails |-> details]

\* the reading requests processRepoTransferOptimized makes under the flags
ProcessCalls(f) == (IF f.assign THEN {"teams"} ELSE {}) \cup {"source"}

\* the names of the teams of a repository
teamNames(sourceTeams) == [k \in 1..Len(sourceTeams) |-> sourceTeams[k].Name]

\* a slip a maintainer could make: counting the blockers but not returning
processRepoTransferOptimizedIgnoringBlockers(f, owner, repoName, preScanned, orgTeams, failed) ==
    LET teams == IF f.assign /\ "teams" \notin failed
                 THEN teamNames(getRepositoryTeams(repoName)) ELSE <<>>
    IN
    IF "source" \in failed
    THEN TransferResult(owner, repoName, FALSE, 0, "VALIDATED", "source", teams, <<>>)
    ELSE IF ~f.enforce
    THEN LET facts == AnalyzeOrganizationalDependencies(repoName)
             caps == IF preScanned # <<>> THEN preScanned[1]
                     ELSE ScanTargetOrganization(orgTeams, FALSE)
             validationResult == ValidateAgainstTarget(facts, caps, f.assign)
             blockerCount == validationResult.Summary.Blockers
         IN  TransferResult(owner, repoName, TRUE, blockerCount, "VALIDATED", Nil,
                            teams, <<validationResult>>)
    ELSE TransferResult(owner, repoName, TRUE, 0, "ENFORCED", Nil, teams, <<>>)

\* processRepoTransferOptimized: the result for one repository; failed holds the
\* reading requests that fail, preScanned the capabilities of the pre-scan (empty
\* when there was none), orgTeams the teams the target organization holds now
processRepoTransferOptimized(f, owner, repoName, preScanned, orgTeams, failed) ==
    LET teams == IF f.assign /\ "teams" \notin failed
                 THEN teamNames(getRepositoryTeams(repoName)) ELSE <<>>
    IN
    IF "source" \in failed
    THEN TransferResult(owner, repoName, FALSE, 0, "VALIDATED", "source", teams, <<>>)
    ELSE IF ~f.enforce
    THEN LET facts == AnalyzeOrganizationalDependencies(repoName)
             caps == IF preScanned # <<>> THEN preScanned[1]
                     ELSE ScanTargetOrganization(orgTeams, FALSE)
             validationResult == ValidateAgainstTarget(facts, caps, f.assign)
             blockerCount == validationResult.Summary.Blockers
         IN  IF blockerCount > 0
             THEN TransferResult(owner, repoName, FALSE, blockerCount, "BLOCKED",
                                 "blocked", teams, <<validationResult>>)
             ELSE TransferResult(owner, repoName, TRUE, blockerCount, "VALIDATED",
                                 Nil, teams, <<validationResult>>)
    ELSE TransferResult(owner, repoName, TRUE, 0, "ENFORCED", Nil, teams, <<>>)

\* groupReposByOrganization: the arguments of one owner, in the order given
reposOfOwner(args, owner) == SelectSeq(args, LAMBDA repo : Split(repo, <<"/">>)[1] = owner)

\* the orders in which "for orgName, orgRepoList := range orgRepos" may visit
\* the arguments: the iteration order of a Go map is not specified
ProcessingOrders(args) ==
    LET owners == {Split(args[k], <<"/">>)[1] : k \in 1..Len(args)}
        n == Cardinality(owners)
        visits == {v \in [1..n -> owners] : \A i, j \in 1..n : v[i] = v[j] => i = j}
    IN  {Flatten([k \in 1..n |-> reposOfOwner(args, v[k])]) : v \in visits}

\* handleBatchTransferResults: the teams handed to executeTransfer
teamsForTransfer(f, result, orgTeams) ==
    IF f.assign
    THEN IF f.enforce
         THEN SelectSeq(result.Teams, LAMBDA name : teamExistsInTargetOrg(orgTeams, name))
         ELSE result.Teams
    ELSE <<>>

\* the requests executeTransfer makes that may fail
ExecuteCalls == {"teams", "transfer", "schema", "property", "assign"}

\* executeTransfer: whether it returns an error and the changing requests it
\* issues; failed holds the requests that fail. The origin property is written
\* when the schema of the target organization, which defines it, can be read.
executeTransfer(repository, repoName, teams, preservePermissions, failed) ==
    LET sourceTeamPermissions ==
            IF teams # <<>> /\ preservePermissions /\ "teams" \notin failed
            THEN getRepositoryTeams(repoName) ELSE <<>>
    IN
    IF "transfer" \in failed
    THEN [failed |-> TRUE, requests |-> <<Issued("transfer", repository, <<>>, FALSE)>>]
    ELSE [failed |-> FALSE,
          requests |->
             <<Issued("transfer", repository, <<>>, TRUE)>>
             \o (IF "schema" \in failed THEN <<>>
                 ELSE <<Issued("setProperty", repository, <<>>, "property" \notin failed)>>)
             \o (IF teams # <<>> /\ preservePermissions /\ sourceTeamPermissions # <<>>
                 THEN [k \in 1..Len(sourceTeamPermissions) |->
                          Issued("assignTeam", repository, sourceTeamPermissions[k].Name,
                                 "assign" \notin failed)]
                 ELSE <<>>)]
\* ---------------------------------------------- runTransfer, step by step
TransferFrame == UNCHANGED <<vvars, bvars, callvars, rvars, svars, lvars>>

\* at most MaxFaults requests fail in one run
MayFail(n) == transferFaults + n <= MaxFaults

\* lines 78-109: the format of every argument, then the target owner
TransferStart ==
    /\ transferPc = "start"
    /\ IF \E k \in 1..Len(transferArgs) : Len(Split(transferArgs[k], <<"/">>)) # 2
       THEN /\ transferErr' = "format"
            /\ transferPc' = "done"
            /\ UNCHANGED transferFaults
       ELSE \E found \in BOOLEAN :
              /\ found \/ MayFail(1)
              /\ transferErr' = IF found THEN Nil ELSE "targetOwner"
              /\ transferPc' = IF found THEN "scan" ELSE "done"
              /\ transferFaults' = IF found THEN transferFaults ELSE transferFaults + 1
    /\ UNCHANGED <<flags, transferArgs, targetOrgTeams, targetCapabilities, pending,
                   transferResults, cursor, issued, failures>>
    /\ TransferFrame

\* lines 111-122: the capabilities of the target organization are scanned once,
\* unless --enforce is set
TransferScan ==
    /\ transferPc = "scan"
    /\ IF ~flags.enforce
       THEN \E teamsFailed \in BOOLEAN :
              /\ ~teamsFailed \/ MayFail(1)
              /\ targetCapabilities' =
                    <<ScanTargetOrganization(targetOrgTeams, teamsFailed)>>
              /\ transferFaults' = IF teamsFailed THEN transferFaults + 1
                                   ELSE transferFaults
       ELSE UNCHANGED <<targetCapabilities, transferFaults>>
    /\ transferPc' = "step0"
    /\ cursor' = 1
    /\ UNCHANGED <<flags, transferArgs, targetOrgTeams, pending, transferResults,
                   issued, failures, transferErr>>
    /\ TransferFrame

\* lines 124-143: Step 0 for the argument under the cursor
TransferCreateTeams ==
    /\ transferPc = "step0"
    /\ flags.createTeams
    /\ cursor <= Len(transferArgs)
    /\ LET repoName == Split(transferArgs[cursor], <<"/">>)[2]
           sourceTeamPermissions == getRepositoryTeams(repoName)
           missing == {name \in Range(teamNames(sourceTeamPermissions)) :
                          ~teamExistsInTargetOrg(targetOrgTeams, name)}
       IN  \E teamsFailed \in BOOLEAN, failedCreates \in SUBSET missing :
              /\ teamsFailed => failedCreates = {}
              /\ MayFail((IF teamsFailed THEN 1 ELSE 0) + Cardinality(failedCreates))
              /\ transferFaults' = transferFaults + (IF teamsFailed THEN 1 ELSE 0)
                                   + Cardinality(failedCreates)
              /\ LET step == createTeamsInTargetOrg(targetOrgTeams, sourceTeamPermissions,
                                                    failedCreates)
                 IN  IF teamsFailed
                     THEN UNCHANGED <<targetOrgTeams, issued>>
                     ELSE /\ targetOrgTeams' = step.teams
                          /\ issued' = issued \o step.requests
    /\ cursor' = cursor + 1
    /\ UNCHANGED <<flags, transferArgs, targetCapabilities, pending, transferResults,
                   failures, transferErr, transferPc>>
    /\ TransferFrame

\* lines 145-149: the arguments are grouped by owner
TransferGroup ==
    /\ transferPc = "step0"
    /\ ~flags.createTeams \/ cursor > Len(transferArgs)
    /\ pending' \in ProcessingOrders(transferArgs)
    /\ cursor' = 1
    /\ transferPc' = "process"
    /\ UNCHANGED <<flags, transferArgs, targetOrgTeams, targetCapabilities,
                   transferResults, issued, failures, transferErr, transferFaults>>
    /\ TransferFrame

\* lines 151-171: the next repository is validated
TransferProcess ==
    /\ transferPc = "process"
    /\ pending # <<>>
    /\ LET parts == Split(Head(pending), <<"/">>) IN
       \E failed \in SUBSET ProcessCalls(flags) :
          /\ MayFail(Cardinality(failed))
          /\ transferFaults' = transferFaults + Cardinality(failed)
          /\ transferResults' =
                Append(transferResults,
                       processRepoTransferOptimized(flags, parts[1], parts[2],
                                                    targetCapabilities, targetOrgTeams,
                                                    failed))
    /\ pending' = Tail(pending)
    /\ UNCHANGED <<flags, transferArgs, targetOrgTeams, targetCapabilities, cursor,
                   issued, failures, transferErr, transferPc>>
    /\ TransferFrame

\* lines 173-179: with --dry-run the summary is shown and nil returned,
\* otherwise the results are handed to handleBatchTransferResults
TransferProcessed ==
    /\ transferPc = "process"
    /\ pending = <<>>
    /\ transferPc' = IF flags.dryRun THEN "done" ELSE "handle"
    /\ transferErr' = Nil
    /\ UNCHANGED <<flags, transferArgs, targetOrgTeams, targetCapabilities, pending,
                   transferResults, cursor, issued, failures, transferFaults>>
    /\ TransferFrame

\* a slip a maintainer could make: leaving the loop at the first failure
TransferHandleResultStopping ==
    /\ transferPc = "handle"
    /\ cursor <= Len(transferResults)
    /\ LET result == transferResults[cursor] IN
       IF result.Success
       THEN \E failed \in SUBSET ExecuteCalls :
              /\ MayFail(Cardinality(failed))
              /\ transferFaults' = transferFaults + Cardinality(failed)
              /\ LET run == executeTransfer(result.Repository, result.RepoName,
                                            teamsForTransfer(flags, result, targetOrgTeams),
                                            flags.assign, failed)
                 IN  /\ issued' = issued \o run.requests
                     /\ failures' = IF run.failed
                                    THEN Append(failures, <<result.Repository, "transfer">>)
                                    ELSE failures
                     /\ cursor' = IF run.failed THEN Len(transferResults) + 1
                                  ELSE cursor + 1
       ELSE /\ failures' = Append(failures, <<result.Repository, result.Error>>)
            /\ cursor' = Len(transferResults) + 1
            /\ UNCHANGED <<issued, transferFaults>>
    /\ UNCHANGED <<flags, transferArgs, targetOrgTeams, targetCapabilities, pending,
                   transferResults, transferErr, transferPc>>
    /\ TransferFrame

\* lines 670-720 of handleBatchTransferResults: the result under the cursor
TransferHandleResult ==
    /\ transferPc = "handle"
    /\ cursor <= Len(transferResults)
    /\ LET result == transferResults[cursor] IN
       IF result.Success
       THEN \E failed \in SUBSET ExecuteCalls :
              /\ MayFail(Cardinality(failed))
              /\ transferFaults' = transferFaults + Cardinality(failed)
              /\ LET run == executeTransfer(result.Repository, result.RepoName,
                                            teamsForTransfer(flags, result, targetOrgTeams),
                                            flags.assign, failed)
                 IN  /\ issued' = issued \o run.requests
                     /\ failures' = IF run.failed
                                    THEN Append(failures, <<result.Repository, "transfer">>)
                                    ELSE failures
       ELSE /\ failures' = Append(failures, <<result.Repository, result.Error>>)
            /\ UNCHANGED <<issued, transferFaults>>
    /\ cursor' = cursor + 1
    /\ UNCHANGED <<flags, transferArgs, targetOrgTeams, targetCapabilities, pending,
                   transferResults, transferErr, transferPc>>
    /\ TransferFrame

\* lines 722-731: an error when any failure was collected
TransferReturn ==
    /\ transferPc = "handle"
    /\ cursor > Len(transferResults)
    /\ transferErr' = IF failures # <<>> THEN "failures" ELSE Nil
    /\ transferPc' = "done"
    /\ UNCHANGED <<flags, transferArgs, targetOrgTeams, targetCapabilities, pending,
                   transferResults, cursor, issued, failures, transferFaults>>
    /\ TransferFrame

\* the arguments of one run: between one and MaxRepos different repositories
TransferArgsUniverse ==
    {args \in SeqsUpTo(TransferUniverse, MaxRepos) :
        /\ args # <<>>
        /\ \A i, j \in 1..Len(args) : args[i] = args[j] => i = j}

InitTransfer ==
    /\ flags \in FlagsUniverse
    /\ transferArgs \in TransferArgsUniverse
    /\ targetOrgTeams \in TargetTeamsUniverse
    /\ targetCapabilities = <<>>
    /\ pending = <<>>
    /\ transferResults = <<>>
    /\ cursor = 0
    /\ issued = <<>>
    /\ failures = <<>>
    /\ transferErr = Nil
    /\ transferFaults = 0
    /\ transferPc = "start"
    /\ ValidateIdle
    /\ NoBatch
    /\ CallsIdle
    /\ ResolverIdle
    /\ ScanIdle
    /\ StallIdle

NextTransfer ==
    \/ TransferStart
    \/ TransferScan
    \/ TransferCreateTeams
    \/ TransferGroup
    \/ TransferProcess
    \/ TransferProcessed
    \/ TransferHandleResult
    \/ TransferReturn

SpecTransfer == InitTransfer /\ [][NextTransfer]_vars
\* ------------------------------------------------- claims on the classifier
\* C7: OverallReadiness follows the precedence over the Summary counters:
\* blocker exactly when blockers > 0; otherwise setup_needed when setup_needed > 0
\* or review > 0; otherwise warning when warnings > 0; otherwise ready when
\* ready = total; otherwise unknown.
C7_ReadinessPrecedence ==
    vpc = "done" =>
        LET s == validation.Summary
            r == validation.OverallReadiness
        IN  /\ (r = ValidationBlocker) <=> (s.Blockers > 0)
            /\ s.Blockers = 0 /\ (s.SetupNeeded > 0 \/ s.Review > 0)
                  => r = ValidationSetupNeeded
            /\ s.Blockers = 0 /\ s.SetupNeeded = 0 /\ s.Review = 0 /\ s.Warnings > 0
                  => r = ValidationWarning
            /\ s.Blockers = 0 /\ s.SetupNeeded = 0 /\ s.Review = 0 /\ s.Warnings = 0
                  => r = (IF s.Ready = s.Total THEN ValidationReady ELSE ValidationUnknown)

\* blockers win over setup_needed and warnings that are present too
C7_Witness ==
    /\ vpc = "done"
    /\ validation.Summary.Blockers > 0
    /\ validation.Summary.SetupNeeded > 0
    /\ validation.Summary.Warnings > 0
    /\ validation.OverallReadiness = ValidationBlocker

\* the six category lists of a MigrationValidation
CategoryLists(v) ==
    <<v.AppsIntegrations, v.AccessPermissions, v.CIDependencies, v.Governance,
      v.CodeDependencies, v.SecurityCompliance>>

\* C8: in every MigrationValidation ValidateAgainstTarget produces, Summary.Total
\* is the sum of the six status counters and is the number of ValidationResults
\* in the six category lists.
C8_SummaryTotal ==
    vpc \in {"readiness", "done"} =>
        LET s == validation.Summary
            lists == CategoryLists(validation)
        IN  /\ s.Total = s.Ready + s.SetupNeeded + s.Blockers + s.Warnings
                           + s.Review + s.Unknown
            /\ s.Total = Len(lists[1]) + Len(lists[2]) + Len(lists[3])
                           + Len(lists[4]) + Len(lists[5]) + Len(lists[6])

\* a validation with results in the code list and in another list
C8_Witness ==
    /\ vpc = "done"
    /\ Len(validation.CodeDependencies) > 0
    /\ Len(validation.AccessPermissions) > 0
    /\ validation.Summary.Total = 2

\* the text before the first " (" of an item, the whole item when it has none
KeyOf(item) ==
    LET starts == {i \in 1..(Len(item) - 1) : item[i] = " " /\ item[i + 1] = "("}
    IN  IF starts = {} THEN item
        ELSE SubSeq(item, 1, (CHOOSE i \in starts : \A j \in starts : i <= j) - 1)

\* name equals some entry of list when case is ignored
InIgnoringCase(name, list) ==
    \E k \in 1..Len(list) : ToLower(list[k]) = ToLower(name)

\* C9: a team item is keyed by the text before its first " (": its result is ready
\* exactly when that name equals, case-insensitively, an entry of
\* capabilities.Teams, and is otherwise blocker with a recommendation that
\* contains the team name (never warning, review or setup_needed).
C9_TeamClassification ==
    vpc \in {"summary", "readiness", "done"} =>
        \A k \in 1..Len(deps.AccessPermissions.Teams) :
            LET item == deps.AccessPermissions.Teams[k]
                r == validation.AccessPermissions[k]
            IN  /\ r.Item = item
                /\ IF InIgnoringCase(KeyOf(item), capabilities.Teams)
                   THEN r.Status = ValidationReady
                   ELSE /\ r.Status = ValidationBlocker
                        /\ Contains(r.Recommendation, KeyOf(item))

\* a team whose item has two " (" is missing from a target that has other teams
C9_Witness ==
    /\ vpc = "done"
    /\ capabilities.Teams # <<>>
    /\ \E k \in 1..Len(deps.AccessPermissions.Teams) :
          /\ deps.AccessPermissions.Teams[k] = <<"d","e","v"," ","(","e","u",")"," ","(","a","d","m","i","n",")">>
          /\ validation.AccessPermissions[k].Status = ValidationBlocker

\* the allow-list of standard apps
AllowList == {<<"d","e","p","e","n","d","a","b","o","t">>, <<"g","i","t","h","u","b","-","a","c","t","i","o","n","s">>, <<"c","o","d","e","c","o","v">>, <<"s","o","n","a","r","c","l","o","u","d">>}

\* C10: an app item is keyed by the text before its first " (": its result is
\* ready exactly when that name matches, case-insensitively, an entry of
\* capabilities.Apps; otherwise setup_needed exactly when the lower-cased name
\* contains an entry of the allow-list; otherwise blocker.
C10_AppClassification ==
    vpc \in {"summary", "readiness", "done"} =>
        \A k \in 1..Len(deps.AppsIntegrations.InstalledGitHubApps) :
            LET item == deps.AppsIntegrations.InstalledGitHubApps[k]
                r == validation.AppsIntegrations[k]
            IN  /\ r.Item = item
                /\ r.Status =
                      IF InIgnoringCase(KeyOf(item), capabilities.Apps)
                      THEN ValidationReady
                      ELSE IF \E common \in AllowList :
                                 Contains(ToLower(KeyOf(item)), common)
                      THEN ValidationSetupNeeded
                      ELSE ValidationBlocker

\* an app that is on the allow-list only when case is ignored needs setup
C10_Witness ==
    /\ vpc = "done"
    /\ \E k \in 1..Len(deps.AppsIntegrations.InstalledGitHubApps) :
          /\ deps.AppsIntegrations.InstalledGitHubApps[k] = <<"M","y","-","C","o","d","e","C","o","v">>
          /\ validation.AppsIntegrations[k].Status = ValidationSetupNeeded


\* the name a CI item stands for: the text between an optional
\* "Self-hosted runner: " and the first " ("
CINameOf(item) == KeyOf(TrimPrefix(item, <<"S","e","l","f","-","h","o","s","t","e","d"," ","r","u","n","n","e","r",":"," ">>))

\* the CI results follow the secrets, then the variables, then the runners
CIStatusByName(items, offset, available) ==
    \A k \in 1..Len(items) :
        LET r == validation.CIDependencies[offset + k]
        IN  /\ r.Item = items[k]
            /\ r.Status = IF InIgnoringCase(CINameOf(items[k]), available)
                          THEN ValidationReady
                          ELSE ValidationSetupNeeded

\* C11: for every secret, variable and runner item of the facts, as the CI
\* analyzer records it ("NAME (in workflow-file)"), the result is ready exactly
\* when NAME is, case-insensitively, in the corresponding capability list, and
\* setup_needed otherwise.
C11_CIClassification ==
    vpc \in {"summary", "readiness", "done"} =>
        LET ci == deps.ActionsCIDependencies
        IN  /\ CIStatusByName(ci.OrganizationSecrets, 0, capabilities.Secrets)
            /\ CIStatusByName(ci.OrganizationVariables, Len(ci.OrganizationSecrets),
                              capabilities.Variables)
            /\ CIStatusByName(ci.SelfHostedRunners,
                              Len(ci.OrganizationSecrets) + Len(ci.OrganizationVariables),
                              capabilities.Runners)

\* C12: every individual-collaborator item yields exactly one ValidationResult,
\* its status is warning, and that holds whatever the capabilities contain.
C12_CollaboratorWarning ==
    vpc \in {"summary", "readiness", "done"} =>
        LET collaborators == deps.AccessPermissions.IndividualCollaborators
            rs == validation.AccessPermissions
        IN  \A c \in Range(collaborators) :
                /\ Cardinality({i \in 1..Len(rs) : rs[i].Item = c})
                      = Cardinality({k \in 1..Len(collaborators) : collaborators[k] = c})
                /\ \A i \in 1..Len(rs) : rs[i].Item = c => rs[i].Status = ValidationWarning

\* a collaborator next to a missing team, validated against a target without teams
C12_Witness ==
    /\ vpc = "done"
    /\ capabilities.Teams = <<>>
    /\ deps.AccessPermissions.Teams # <<>>
    /\ \E i \in 1..Len(validation.AccessPermissions) :
          /\ validation.AccessPermissions[i].Item = <<"a","l","i","c","e">>
          /\ validation.AccessPermissions[i].Status = ValidationWarning

\* the call in progress was given what the earlier call c was given
SameInputs(c) ==
    /\ c.deps = deps
    /\ c.capabilities = capabilities
    /\ c.assignTeams = assignTeams

\* the results the six category validators yield for one triple of arguments
ResultsFor(facts, caps, assign) ==
    validateAppsIntegrations(facts.AppsIntegrations, caps)
    \o validateAccessPermissions(facts.AccessPermissions, caps, assign)
    \o validateCIDependencies(facts.ActionsCIDependencies, caps)
    \o validateGovernance(facts.OrgGovernance, caps)
    \o validateCodeDependencies(facts.CodeDependencies, caps)
    \o validateSecurityCompliance(facts.SecurityCompliance, caps)

SomeEntryMatches(list, name) ==
    \E k \in 1..Len(list) : list[k] = name \/ (\E i \in 1..Len(list[k]) : list[k][i] = "*")

\* C14: with a non-empty include list the resolver returns true exactly when some
\* include entry equals the name or contains '*' and no exclude entry does
\* (exclude wins over include); with an empty include list it returns true
\* exactly when no exclude entry equals the name or contains '*', so empty
\* conditions apply to every name.
C14_Applies ==
    rpc = "done" =>
        LET inc == conditions.RepositoryName.Include
            exc == conditions.RepositoryName.Exclude
        IN  /\ inc # <<>> =>
                  (applies <=> SomeEntryMatches(inc, resource)
                               /\ ~SomeEntryMatches(exc, resource))
            /\ inc = <<>> => (applies <=> ~SomeEntryMatches(exc, resource))
            /\ inc = <<>> /\ exc = <<>> => applies

\* a name that is included by a later entry and excluded: exclude wins
C14_Witness ==
    /\ rpc = "done"
    /\ conditions.RepositoryName.Include = <<<<"b">>, <<"a">>>>
    /\ conditions.RepositoryName.Exclude = <<<<"b">>, <<"a">>>>
    /\ resource = <<"a">>
    /\ applies = FALSE

\* the capabilities ScanTargetOrganization builds when no request fails that
\* could succeed
UnfailedScan(api) ==
    [NewCapabilities(<<"t","a","r","g","e","t">>) EXCEPT
        !.Apps = scanAvailableApps(api),
        !.Teams = scanAvailableTeams(api),
        !.RepositoryPolicies = scanRepositoryPolicies(api, AbsentRequests(api)),
        !.MemberPrivileges = scanMemberPrivileges(api),
        !.Secrets = scanAvailableSecrets(api),
        !.Variables = scanAvailableVariables(api),
        !.Runners = scanAvailableRunners(api)]

\* the sub-scans that fill a field of their own from one request
OwnFieldOf ==
    [apps |-> "Apps", teams |-> "Teams", privileges |-> "MemberPrivileges",
     secrets |-> "Secrets", variables |-> "Variables", runners |-> "Runners"]

\* the field a failed request leaves empty is the one it would have filled
FieldOfRequest(request) ==
    IF request[1] \in DOMAIN OwnFieldOf THEN OwnFieldOf[request[1]]
    ELSE "RepositoryPolicies"

\* the fields with a request that failed, the fields without one
FailedFields == {FieldOfRequest(request) : request \in scanFailed}

\* original statement of C15: ScanTargetOrganization never returns an error, and
\* whichever requests fail, the field of each failed request is empty and every
\* field whose requests all succeeded is what it is when no request fails.
C15_FailedFieldEmpty ==
    spc = "done" =>
        /\ scanErr = Nil
        /\ \A field \in FailedFields :
              scanned[field] = NewCapabilities(<<"t","a","r","g","e","t">>)[field]
        /\ \A field \in (DOMAIN scanned) \ FailedFields :
              scanned[field] = UnfailedScan(TargetApiOf[targetApi])[field]

\* the policies one successful request of scanRepositoryPolicies contributes
\* when no other request fails
PoliciesOfRequest(api, name) ==
    CASE name = "policies" -> endpointPolicies(api)
      [] name = "repositoryPolicies" -> alternativePolicies(api)
      [] name = "rulesets" -> rulesetPolicies(api, {})
      [] name = "securityFile" -> <<securityFilePolicy>>
      [] name = "dependabotFile" -> <<dependabotFilePolicy>>

\* policy is the one the ruleset list alone gives for a ruleset whose detail
\* request failed
IsFallbackPolicy(api, policy) ==
    \E k \in 1..Len(api.rulesets) :
        /\ Request("rulesetDetail", api.rulesets[k].ID) \in scanFailed
        /\ policy.Name = api.rulesets[k].Name
        /\ policy.Status = api.rulesets[k].Enforcement
        /\ \A j \in 1..Len(policy.Restrictions) :
              \/ HasPrefix(policy.Restrictions[j], <<"R","u","l","e",":"," ">>)
              \/ HasPrefix(policy.Restrictions[j], <<"E","n","f","o","r","c","e","m","e","n","t",":"," ">>)

\* C15 (amended): ScanTargetOrganization never returns an error; a failed request
\* that fills a field of its own leaves that field empty; RepositoryPolicies holds,
\* in order, the policies of those of its five requests that succeeded and none of
\* a request that failed, a ruleset whose detail request failed being listed with
\* the rule types of the ruleset list; and every field without a failed request is
\* what it is when no request fails.
C15_ScanTolerant ==
    spc = "done" =>
        LET api == TargetApiOf[targetApi]
            names == <<"policies", "repositoryPolicies", "rulesets", "securityFile",
                       "dependabotFile">>
            kept == Flatten([k \in 1..Len(names) |->
                        IF Request(names[k], 0) \in scanFailed THEN <<>>
                        ELSE PoliciesOfRequest(api, names[k])])
        IN  /\ scanErr = Nil
            /\ \A field \in FailedFields \ {"RepositoryPolicies"} :
                  scanned[field] = NewCapabilities(<<"t","a","r","g","e","t">>)[field]
            /\ \A field \in (DOMAIN scanned) \ FailedFields :
                  scanned[field] = UnfailedScan(api)[field]
            /\ Len(scanned.RepositoryPolicies) = Len(kept)
            /\ \A k \in 1..Len(kept) :
                  \/ scanned.RepositoryPolicies[k] = kept[k]
                  \/ IsFallbackPolicy(api, scanned.RepositoryPolicies[k])

\* the policies request failed, the teams request failed, and the policies of
\* the other requests and the apps are there
C15_Witness ==
    /\ spc = "done"
    /\ targetApi = "full"
    /\ scanFailed = {Request("policies", 0), Request("teams", 0),
                     Request("rulesetDetail", 1)}
    /\ scanned.Teams = <<>>
    /\ scanned.Apps # <<>>
    /\ Len(scanned.RepositoryPolicies) = 4
\* ------------------------------------------- claims: the transfer command
\* the transfer request was issued for the repository, whether or not it succeeded
TransferIssuedFor(repository) ==
    \E k \in 1..Len(issued) :
        issued[k].kind = "transfer" /\ issued[k].repository = repository

\* the command got past its start-up checks and has returned
TransferRan == transferPc = "done" /\ transferErr \notin {"format", "targetOwner"}

\* the blockers a validation of the repository against the target organization
\* as it is now would count
BlockersNow(repoName) ==
    ValidateAgainstTarget(AnalyzeOrganizationalDependencies(repoName),
                          ScanTargetOrganization(targetOrgTeams, FALSE),
                          flags.assign).Summary.Blockers

\* C16: the transfer request is never issued for a repository whose validation
\* counted a blocker, and without --enforce it is issued only for repositories
\* validated with no blocker; once the loop over the arguments is over every
\* argument has a result, and a run without --dry-run has issued the transfer
\* of every repository whose result is a success, whatever happened to the
\* others; with --enforce no repository is validated and the transfer of every
\* repository that could be read is issued.
C16_BlockedNeverTransferred ==
    /\ \A r \in Range(transferResults) :
          r.ValidationDetails # <<>> /\ r.ValidationDetails[1].Summary.Blockers > 0
             => ~TransferIssuedFor(r.Repository)
    /\ ~flags.enforce =>
          \A k \in 1..Len(issued) :
             issued[k].kind = "transfer" =>
                \E r \in Range(transferResults) :
                   /\ r.Repository = issued[k].repository
                   /\ r.ValidationDetails # <<>>
                   /\ r.ValidationDetails[1].Summary.Blockers = 0
                   /\ r.BlockerCount = 0
    /\ transferPc \in {"handle", "done"} /\ transferErr \notin {"format", "targetOwner"} =>
          /\ Len(transferResults) = Len(transferArgs)
          /\ \A k \in 1..Len(transferArgs) :
                \E r \in Range(transferResults) : r.Repository = transferArgs[k]
    /\ TransferRan /\ ~flags.dryRun =>
          \A r \in Range(transferResults) : r.Success => TransferIssuedFor(r.Repository)
    /\ flags.enforce =>
          \A r \in Range(transferResults) :
             /\ r.ValidationDetails = <<>>
             /\ r.BlockerCount = 0
             /\ r.Success <=> r.Error = Nil
             /\ r.Success => r.Mode = "ENFORCED"

\* one repository of a batch was blocked and never transferred while another,
\* validated without blockers, was transferred
C16_Witness ==
    /\ TransferRan
    /\ ~flags.enforce
    /\ ~flags.dryRun
    /\ \E r, q \in Range(transferResults) :
          /\ r.BlockerCount > 0
          /\ r.Mode = "BLOCKED"
          /\ ~TransferIssuedFor(r.Repository)
          /\ q.Success
          /\ q.ValidationDetails # <<>>
          /\ \E k \in 1..Len(issued) :
                issued[k] = Issued("transfer", q.Repository, <<>>, TRUE)

\* C17: with --dry-run the command changes nothing, whatever the other flags
\* are: no team is created, no transfer is requested, no team permission is
\* assigned and no custom property is written.
C17_DryRunChangesNothing ==
    flags.dryRun =>
        \A k \in 1..Len(issued) :
            /\ ~(issued[k].kind = "createTeam" /\ issued[k].ok)
            /\ issued[k].kind # "transfer"
            /\ ~(issued[k].kind = "assignTeam" /\ issued[k].ok)
            /\ ~(issued[k].kind = "setProperty" /\ issued[k].ok)

\* the teams Step 0 created in the target organization
CreatedTeams ==
    {issued[k].team : k \in {j \in 1..Len(issued) :
                                issued[j].kind = "createTeam" /\ issued[j].ok}}

\* C18: with --create and without --enforce, a team of a source repository that
\* Step 0 created in the target organization is not reported as a blocker in the
\* validation of that repository, and the repository is not blocked when the
\* target organization, as Step 0 left it, gives its validation no blocker.
C18_CreatedTeamNotBlocker ==
    flags.createTeams /\ ~flags.enforce =>
        \A r \in Range(transferResults) :
            /\ r.ValidationDetails # <<>> =>
                  \A v \in Range(r.ValidationDetails[1].AccessPermissions) :
                      v.Status = ValidationBlocker =>
                          extractTeamName(v.Item) \notin CreatedTeams
            /\ (/\ Range(teamNames(getRepositoryTeams(r.RepoName))) \cap CreatedTeams # {}
                /\ BlockersNow(r.RepoName) = 0)
                  => r.Mode # "BLOCKED"

\* the transfer of some repository failed: its result is not a success (a
\* blocker, or the source repository could not be validated) or its transfer
\* request returned an error
SomeTransferFailed ==
    \/ \E r \in Range(transferResults) : ~r.Success
    \/ \E k \in 1..Len(issued) : issued[k].kind = "transfer" /\ ~issued[k].ok

\* every argument has been processed: it has a result, and the results are as
\* many as the arguments
AllProcessed ==
    /\ Len(transferResults) = Len(transferArgs)
    /\ \A k \in 1..Len(transferArgs) :
          \E r \in Range(transferResults) : r.Repository = transferArgs[k]

\* C19 as stated: a command that got past its start-up checks has processed
\* every argument and returns an error if the transfer of any repository failed.
C19_FailureReturnsError ==
    TransferRan =>
        /\ AllProcessed
        /\ SomeTransferFailed => transferErr # Nil

\* C19, amended: a command that got past its start-up checks has processed every
\* argument, whichever of them failed or was blocked; a run without --dry-run
\* has issued the transfer of every repository whose result is a success, has
\* collected one failure for every repository that was not transferred, and
\* returns an error if the transfer of any repository failed.
C19_BatchFailures ==
    /\ TransferRan => AllProcessed
    /\ TransferRan /\ ~flags.dryRun =>
          /\ \A r \in Range(transferResults) : r.Success => TransferIssuedFor(r.Repository)
          /\ \A r \in Range(transferResults) :
                ~r.Success \/ Issued("transfer", r.Repository, <<>>, FALSE) \in Range(issued)
                   => \E f \in Range(failures) : f[1] = r.Repository
          /\ SomeTransferFailed => transferErr # Nil

\* the first repository of a batch failed, the second was transferred all the
\* same, and the command returned an error
C19_Witness ==
    /\ TransferRan
    /\ ~flags.dryRun
    /\ Len(transferResults) = 2
    /\ \/ ~transferResults[1].Success
       \/ Issued("transfer", transferResults[1].Repository, <<>>, FALSE) \in Range(issued)
    /\ transferResults[2].Success
    /\ Issued("transfer", transferResults[2].Repository, <<>>, TRUE) \in Range(issued)
    /\ transferErr = "failures"
\* ------------------------------------------------------ claims on the batch
\* an identifier that splits into a domain and a name has exactly one "/"
WellFormed(spec) == Cardinality({i \in 1..Len(spec) : spec[i] = "/"}) = 1

\* the name part of a well-formed identifier
NameOf(spec) ==
    SubSeq(spec, (CHOOSE i \in 1..Len(spec) : spec[i] = "/") + 1, Len(spec))

AllWellFormed == \A k \in 1..Len(repos) : WellFormed(repos[k])

\* C1: for a batch of N identifiers of one domain AnalyzeRepositories returns N
\* slots with results[i].Repository = repos[i], whatever the order in which the
\* tasks finish; a slot is written once, by the task dispatched for its index,
\* and a written slot holds the identifier of its own position at all times.
C1_ResultSlots ==
    /\ \A k \in Tasks : slotWrites[k] \in {<<>>, <<k>>}
    /\ \A k \in 1..Len(results) :
          results[k] # ZeroResult => results[k].Repository = repos[k]
    /\ pc = "returned" /\ batchErr = Nil =>
          /\ Len(results) = Len(repos)
          /\ \A k \in 1..Len(repos) :
                results[k].Repository = repos[k] /\ slotWrites[k] = <<k>>
    /\ pc = "returned" /\ Len(repos) >= 1 /\ AllWellFormed => batchErr = Nil

\* the last task of a full batch has written its slot while the first still runs
C1_Witness ==
    /\ Len(repos) = MaxRepos
    /\ AllWellFormed
    /\ tpc[1] = "analyze"
    /\ tpc[Len(repos)] = "done"
    /\ results[Len(repos)].Repository = repos[Len(repos)]
    /\ results[1] = ZeroResult

\* C2: whatever position holds an identifier that does not split into domain and
\* name, AnalyzeRepositories returns all N slots and no batch-level error, the
\* slot of that identifier holds an error and nil facts, and every well-formed
\* identifier of the batch is analysed.
C2_MalformedIsolated ==
    pc = "returned" =>
        \A i \in 1..Len(repos) :
            ~WellFormed(repos[i]) =>
                /\ batchErr = Nil
                /\ Len(results) = Len(repos)
                /\ results[i].Error # Nil
                /\ results[i].Result = <<>>
                /\ \A k \in 1..Len(repos) :
                      WellFormed(repos[k]) =>
                          results[k].Error = Nil /\ results[k].Result # <<>>

\* the fields of the context a task copied, as the facts of the task hold them
CopiedFrom(facts, context) ==
    /\ facts.AppsIntegrations.InstalledGitHubApps = context.Apps.InstalledGitHubApps
    /\ facts.OrgGovernance.OrganizationPolicies = context.Governance.OrganizationPolicies
    /\ facts.OrgGovernance.MemberPrivileges = context.Governance.MemberPrivileges
    /\ facts.OrgGovernance.IssueTemplates = context.Governance.IssueTemplates
    /\ facts.OrgGovernance.PullRequestTemplates = context.Governance.PullRequestTemplates
    /\ Len(facts.OrgGovernance.RepositoryPolicies)
          >= Len(context.Governance.RepositoryPolicies)
    /\ SubSeq(facts.OrgGovernance.RepositoryPolicies, 1,
              Len(context.Governance.RepositoryPolicies))
          = context.Governance.RepositoryPolicies

\* C3: no task exists before all four loaders have finished, no step taken after
\* the phase-1 join changes a field of the OrganizationContext or an element its
\* slices address, and what a task has copied from the context is what the
\* context holds for the rest of the run.
C3_PhaseBarrier ==
    [][/\ (\E t \in Tasks : tpc'[t] # "unspawned") => \A l \in Loaders : lpc'[l] = "done"
       /\ orgCtxSet =>
             /\ ctx' = ctx
             /\ SubSeq(sharedArr', 1, Len(ctx.Governance.RepositoryPolicies))
                   = ctx.Governance.RepositoryPolicies
       /\ \A t \in Tasks :
             tpc'[t] \in {"analyze", "ret", "done"} /\ WellFormed(repos[t])
                => CopiedFrom(factsOf(t)', ctx')]_vars

\* a task analyses with its copy while the other task has not copied yet
C3_Witness ==
    /\ Len(repos) = MaxRepos
    /\ tpc[1] = "copy"
    /\ tpc[Len(repos)] = "analyze"
    /\ gpos[Len(repos)] > 0
    /\ ctx.Governance.OrganizationPolicies # <<>>
    /\ ctx.Apps.InstalledGitHubApps # <<>>

\* C4: in a call over N >= 1 identifiers of one domain each of the four loaders
\* is invoked exactly once, whatever N is, and never more than once.
C4_LoadersOnce ==
    /\ \A l \in Loaders : loaderCalls[l] <= 1
    /\ orgCtxSet => \A l \in Loaders : loaderCalls[l] = 1
    /\ pc = "returned" /\ Len(repos) >= 1 /\ AllWellFormed =>
          \A l \in Loaders : loaderCalls[l] = 1

\* a full batch has returned and every loader ran once
C4_Witness ==
    /\ pc = "returned"
    /\ Len(repos) = MaxRepos
    /\ AllWellFormed
    /\ \A t \in 1..Len(repos) : results[t].Result # <<>>
    /\ \A l \in Loaders : loaderCalls[l] = 1

\* the facts of the four per-repository categories when every call succeeds
PerRepositoryFacts(repo) ==
    [code |-> [GitSubmodules |-> RepoApi(repo).gitmodules,
               OrgPackageRegistries |-> RepoApi(repo).packages,
               OrgSpecificContainerRegistries |-> RepoApi(repo).docker],
     ci |-> [OrganizationSecrets |-> RepoApi(repo).workflows.secrets,
             OrganizationVariables |-> RepoApi(repo).workflows.variables,
             SelfHostedRunners |-> RepoApi(repo).workflows.runners,
             EnvironmentDependencies |-> RepoApi(repo).environments,
             OrgSpecificActions |-> RepoApi(repo).workflows.actions,
             RequiredWorkflows |-> RepoApi(repo).rulesets,
             CrossRepoWorkflowTriggers |-> RepoApi(repo).workflows.triggers],
     access |-> [Teams |-> RepoApi(repo).access.teams,
                 IndividualCollaborators |-> RepoApi(repo).access.collaborators,
                 CodeownersRequirements |-> RepoApi(repo).access.codeowners],
     security |-> [SecurityCampaigns |-> RepoApi(repo).campaigns]]

\* the call each list of the four per-repository categories is filled from
FilledFrom ==
    [code |-> [GitSubmodules |-> "gitmodules", OrgPackageRegistries |-> "packages",
               OrgSpecificContainerRegistries |-> "docker"],
     ci |-> [OrganizationSecrets |-> "workflows", OrganizationVariables |-> "workflows",
             SelfHostedRunners |-> "workflows", EnvironmentDependencies |-> "environments",
             OrgSpecificActions |-> "workflows", RequiredWorkflows |-> "rulesets",
             CrossRepoWorkflowTriggers |-> "workflows"],
     access |-> [Teams |-> "access", IndividualCollaborators |-> "access",
                 CodeownersRequirements |-> "access"],
     security |-> [SecurityCampaigns |-> "campaigns"]]

\* the four per-repository categories of a facts record, by analyzer
CategoriesOf(facts) ==
    [code |-> facts.CodeDependencies, ci |-> facts.ActionsCIDependencies,
     access |-> facts.AccessPermissions, security |-> facts.SecurityCompliance]

\* the analyzers of task t that had a call fail
FailedAnalyzers(t) ==
    {a \in Analyzers : \E list \in DOMAIN FilledFrom[a] : FilledFrom[a][list] \in faults[t]}

\* the tasks of the batch that analyse a repository
Analysed == {t \in 1..Len(repos) : WellFormed(repos[t])}

PopulatedGovernance(w, owner, rulesetsFailed) ==
    LET policies ==
            memberAndSecurityPolicies(w.orgInfo)
            \o (IF rulesetsFailed THEN <<>> ELSE orgRulesetPolicies(w.rulesets))
            \o securityFilePolicies(w)
    IN  [OrganizationPolicies |-> policies,
         RepositoryPolicies |-> separatedRepoPolicies(policies),
         MemberPrivileges |-> separatedMemberPrivileges(policies),
         IssueTemplates |-> issueTemplatesOf(w, owner),
         PullRequestTemplates |-> pullRequestTemplatesOf(w, owner)]

C20_OrgDataOnce ==
    Len(repos) >= 2 /\ AllWellFormed =>
        \A piece \in Loaders : OrgDataRequests(piece) <= 1

\* the step is one of task t: an analyzer of t returned or the ruleset filter of
\* t moved on by one policy
StepOfTask(t) == gpos'[t] # gpos[t] \/ adone'[t] # adone[t]

\* C21: during phase 2 the OrganizationContext is the only object the tasks
\* share: a write of a task, the append of a resolver match to its governance
\* facts included, shows in the facts of that task only, never in the facts of
\* another task and never in the OrganizationContext.
C21_WritesStayPrivate ==
    [][\A t \in Tasks :
          StepOfTask(t) =>
              /\ ctx' = ctx
              /\ \A u \in Tasks \ {t} : factsOf(u)' = factsOf(u)]_vars

\* task t holds the lock of the context in reader mode: between the RLock and
\* the RUnlock of analyzeRepositoryWithContext
HoldsReadLock(t) == tpc[t] = "copy"

\* the step reads the OrganizationContext on behalf of task t: the copy of the
\* apps and governance fields, or one iteration of the ruleset filter over
\* ba.orgCtx.Governance.OrganizationPolicies
ReadsContext(t) ==
    \/ tpc[t] = "copy" /\ tpc'[t] = "analyze"
    \/ gpos'[t] # gpos[t]

\* C22: after the phase-1 join every read of the OrganizationContext by a task,
\* the copy of the apps and governance fields as well as the iteration of the
\* resolver over the cached org-wide policies, is made while the lock of the
\* context is held in reader mode.
C22_ReadsUnderLock ==
    [][\A t \in Tasks : ReadsContext(t) => HoldsReadLock(t) /\ rlock > 0]_vars

\* C23: for every set of conditions (include, exclude, protected only) and every
\* repository name, the resolver of the batch applied to the Policy whose
\* restriction strings were written from those conditions ("Targets repos: ...",
\* "Excludes repos: ...") answers as the resolver on the conditions themselves
\* does; in particular exclude wins over include in both forms.
C23_FormsAgree ==
    rpc = "done" => appliesStored = applies

\* the governance results ValidateAgainstTarget gives for the facts of task t
\* against some target organization hold one for the policy
HasGovernanceResult(t, policy) ==
    \E caps \in CapabilitiesUniverse :
        LET governed == validateGovernance(factsOf(t).OrgGovernance, caps) IN
        \E k \in 1..Len(governed) : governed[k].Item = policyItem(policy)

\* C26: in a batch a cached org-wide ruleset is in the governance facts of a
\* repository only if the ruleset target resolver says it applies to that
\* repository: a ruleset that targets other repositories only is absent from
\* the facts of the repository and gets no ValidationResult for it, as in the
\* analysis of a single repository.
C26_OnlyApplicableRulesets ==
    pc = "returned" /\ batchErr = Nil =>
        \A t \in Analysed :
            \A k \in 1..Len(ctx.Governance.OrganizationPolicies) :
                LET policy == ctx.Governance.OrganizationPolicies[k] IN
                ~rulesetAppliesToRepo(policy, NameOf(repos[t])) =>
                    /\ policy \notin Range(factsOf(t).OrgGovernance.OrganizationPolicies)
                    /\ policy \notin Range(factsOf(t).OrgGovernance.RepositoryPolicies)
                    /\ ~HasGovernanceResult(t, policy)

\* the positions of the repository-policy list of task t that hold the policy
OccurrencesIn(t, policy) ==
    {k \in 1..Len(factsOf(t).OrgGovernance.RepositoryPolicies) :
        factsOf(t).OrgGovernance.RepositoryPolicies[k] = policy}

\* C27: in a batch each cached org-wide policy occurs at most once in the
\* repository-policy list of a repository: appending the matches of the
\* resolver never repeats a policy already copied from the OrganizationContext.
C27_NoDuplicatePolicy ==
    orgCtxSet =>
        \A t \in Analysed :
            \A k \in 1..Len(ctx.Governance.OrganizationPolicies) :
                Cardinality(OccurrencesIn(t, ctx.Governance.OrganizationPolicies[k])) <= 1

\* task t issued the call that never returns
IssuedStalledCall(t) == \E name \in Analyzers : <<t, name>> \in stalled

PrivilegeKeywords ==
    {<<"m","e","m","b","e","r"," ","m","a","n","a","g","e","m","e","n","t">>, <<"r","e","p","o","s","i","t","o","r","y"," ","c","r","e","a","t","i","o","n">>, <<"p","r","i","v","a","t","e"," ","r","e","p","o","s","i","t","o","r","y"," ","f","o","r","k","i","n","g">>,
     <<"t","w","o","-","f","a","c","t","o","r"," ","a","u","t","h","e","n","t","i","c","a","t","i","o","n">>, <<"w","e","b"," ","c","o","m","m","i","t"," ","s","i","g","n","o","f","f">>}

\* the name of the policy or one of its restriction strings holds a keyword
HasPrivilegeKeyword(policy) ==
    \E keyword \in PrivilegeKeywords :
        \/ Contains(ToLower(policy.Name), keyword)
        \/ \E r \in 1..Len(policy.Restrictions) :
              Contains(ToLower(policy.Restrictions[r]), keyword)

\* the name marks an explicitly configured repository policy
NamedPolicy(policy) ==
    Contains(ToLower(policy.Name), <<"p","o","l","i","c","y">>) /\ policy.Name # <<"M","e","m","b","e","r"," ","M","a","n","a","g","e","m","e","n","t"," ","P","o","l","i","c","y">>

\* the governance result of the policy at position k is the one the validator
\* of repository policies gives
TreatedAsRepositoryPolicy(k) ==
    validation.Governance[k] =
        validateRepositoryPolicy(deps.OrgGovernance.OrganizationPolicies[k],
                                 capabilities.RepositoryPolicies)

\* the governance result of the policy at position k is the one the validator
\* of member privileges gives
TreatedAsMemberPrivilege(k) ==
    validation.Governance[k] =
        validateMemberPrivilegePolicy(deps.OrgGovernance.OrganizationPolicies[k],
                                      capabilities.MemberPrivileges)

\* C24: ValidateAgainstTarget treats a governance policy whose name contains
\* "policy" and is not literally "Member Management Policy" as a repository
\* policy, even when its name or restrictions hold a member-privilege keyword;
\* any other policy is member-privilege exactly when its name or one of its
\* restriction strings holds one of the five keywords.
C24_PolicyClassification ==
    vpc = "done" =>
        \A k \in 1..Len(deps.OrgGovernance.OrganizationPolicies) :
            LET policy == deps.OrgGovernance.OrganizationPolicies[k] IN
            IF NamedPolicy(policy) \/ ~HasPrivilegeKeyword(policy)
            THEN TreatedAsRepositoryPolicy(k) /\ ~TreatedAsMemberPrivilege(k)
            ELSE TreatedAsMemberPrivilege(k) /\ ~TreatedAsRepositoryPolicy(k)

\* the restrictions a member-privilege policy may demand and what the target
\* organization must have set for each to be met
RestrictionMet(targetPrivileges) ==
    {<<<<"r","e","p","o","s","i","t","o","r","y"," ","c","r","e","a","t","i","o","n"," ","r","e","s","t","r","i","c","t","e","d">>, ~targetPrivileges.CanCreateRepos>>,
     <<<<"p","r","i","v","a","t","e"," ","r","e","p","o","s","i","t","o","r","y"," ","f","o","r","k","i","n","g"," ","r","e","s","t","r","i","c","t","e","d">>, ~targetPrivileges.CanForkPrivateRepos>>,
     <<<<"t","w","o","-","f","a","c","t","o","r"," ","a","u","t","h","e","n","t","i","c","a","t","i","o","n"," ","r","e","q","u","i","r","e","d">>, targetPrivileges.TwoFactorRequired>>,
     <<<<"w","e","b"," ","c","o","m","m","i","t"," ","s","i","g","n","o","f","f"," ","r","e","q","u","i","r","e","d">>, targetPrivileges.WebCommitSignoffRequired>>}

\* every restriction keyword found in the restriction strings of the policy is
\* met by the member privileges of the target organization
AllRestrictionsMet(policy, targetPrivileges) ==
    \A r \in 1..Len(policy.Restrictions) :
        \A demand \in RestrictionMet(targetPrivileges) :
            Contains(ToLower(policy.Restrictions[r]), demand[1]) => demand[2]

\* the name of the policy is the name of a policy of the target organization,
\* letter case aside
NameMatchesTarget(policy, targetPolicies) ==
    \E k \in 1..Len(targetPolicies) :
        ToLower(targetPolicies[k].Name) = ToLower(policy.Name)

\* C25: a governance policy classified member-privilege is ready exactly when
\* every restriction keyword found in its restriction strings is already met by
\* the member-privilege flags of the target, and setup_needed otherwise; a
\* policy classified repository policy is review exactly when its name matches
\* the name of a target policy, and setup_needed otherwise; no governance
\* policy is blocker or warning.
C25_PolicyStatus ==
    vpc = "done" =>
        \A k \in 1..Len(deps.OrgGovernance.OrganizationPolicies) :
            LET policy == deps.OrgGovernance.OrganizationPolicies[k]
                status == validation.Governance[k].Status
            IN  /\ status \notin {ValidationBlocker, ValidationWarning}
                /\ TreatedAsMemberPrivilege(k) =>
                      status = IF AllRestrictionsMet(policy, capabilities.MemberPrivileges)
                               THEN ValidationReady ELSE ValidationSetupNeeded
                /\ TreatedAsRepositoryPolicy(k) =>
                      status = IF NameMatchesTarget(policy, capabilities.RepositoryPolicies)
                               THEN ValidationReview ELSE ValidationSetupNeeded
                /\ TreatedAsMemberPrivilege(k) \/ TreatedAsRepositoryPolicy(k)

\* a member-privilege policy whose two restrictions the target meets and a
\* repository policy the target has under the same name
C25_Witness ==
    /\ vpc = "done"
    /\ Len(deps.OrgGovernance.OrganizationPolicies) = 2
    /\ TreatedAsMemberPrivilege(1)
    /\ Len(deps.OrgGovernance.OrganizationPolicies[1].Restrictions) = 2
    /\ validation.Governance[1].Status = ValidationReady
    /\ TreatedAsRepositoryPolicy(2)
    /\ validation.Governance[2].Status = ValidationReview

\* C28: the assignTeams argument has no observable effect: for all facts and
\* capabilities ValidateAgainstTarget returns the same MigrationValidation with
\* the flag set and with the flag not set.
C28_FlagWithoutEffect ==
    vpc = "done" /\ returned # <<>> =>
        /\ returned[1].deps = deps
        /\ returned[1].capabilities = capabilities
        /\ returned[1].assignTeams # assignTeams
        /\ returned[1].validation = validation

\* both calls found a team of the facts missing in the target organization
C28_Witness ==
    /\ vpc = "done"
    /\ returned # <<>>
    /\ returned[1].assignTeams
    /\ ~assignTeams
    /\ deps.AccessPermissions.Teams # <<>>
    /\ validation.AccessPermissions[1].Status = ValidationBlocker
    /\ returned[1].validation.AccessPermissions[1].Status = ValidationBlocker

\* C29: the classifier gives the status unknown to no dependency item: for all
\* facts and capabilities the summary counts no unknown result, so the overall
\* readiness is never unknown and is ready exactly when every result is ready,
\* the case of no results included.
C29_NeverUnknown ==
    LET allResults == allResultsOf(validation) IN
    /\ \A k \in 1..Len(allResults) :
          allResults[k].Status \in {ValidationReady, ValidationSetupNeeded,
                                    ValidationBlocker, ValidationWarning, ValidationReview}
    /\ validation.Summary.Unknown = 0
    /\ vpc = "done" =>
          /\ validation.OverallReadiness # ValidationUnknown
          /\ validation.OverallReadiness = ValidationReady
                <=> \A k \in 1..Len(allResults) : allResults[k].Status = ValidationReady
          /\ allResults = <<>> => validation.OverallReadiness = ValidationReady

\* every one of several items was found in the target organization
C29_Witness ==
    /\ vpc = "done"
    /\ validation.Summary.Total = MaxItems
    /\ validation.Summary.Ready = MaxItems
    /\ validation.Summary.Unknown = 0
    /\ validation.OverallReadiness = ValidationReady
====
